---- MODULE Spec2Model ----
(***************************************************************************)
(* OneDriveGuard: the recursive permission scanner of src/acl_scanner.py   *)
(* (analyze_permissions, scan_shared_folders_recursive and its closure     *)
(* check_folder_recursive, filter_folders_by_user) over a remote drive.    *)
(*                                                                         *)
(* Python strings are sequences of characters, dicts are functions whose   *)
(* DOMAIN is the set of keys present, lists are sequences.                 *)
(***************************************************************************)
EXTENDS Integers, Sequences, FiniteSets, TLC

(***************************************************************************)
(* Bounds of the model.                                                    *)
(***************************************************************************)
\* largest max_depth argument tried
MaxDepthArg == 5
\* every max_depth argument up to this one is tried
MinDepthArgs == 3
\* largest number of remote calls that fail in one behaviour
MaxFaults == 2
\* longest candidate list handed to filter_folders_by_user
MaxCandidates == 2

(***************************************************************************)
(* Python values.                                                          *)
(***************************************************************************)
\* None where a dict is expected, and None where a string or list is expected
NoneDict == [py_none |-> TRUE]
None == <<"None">>
EmptyStr == <<>>

\* truth value of a string or list: None and the empty value are false
Truthy(v) == v # None /\ v # <<>>

\* truth value of a dict: None and {} are false
TruthyDict(v) == DOMAIN v # {} /\ "py_none" \notin DOMAIN v

\* dict.get(k, dflt)
Get(d, k, dflt) == IF k \in DOMAIN d THEN d[k] ELSE dflt

\* x in list
InList(x, list) == \E i \in 1..Len(list) : list[i] = x

\* str.lower(), character by character
LowerChar(c) ==
    CASE c = "A" -> "a"
      [] c = "L" -> "l"
      [] c = "S" -> "s"
      [] c = "B" -> "b"
      [] c = "O" -> "o"
      [] c = "C" -> "c"
      [] c = "F" -> "f"
      [] c = "U" -> "u"
      [] OTHER -> c

Lower(s) == [i \in 1..Len(s) |-> LowerChar(s[i])]

\* sub in s, for strings
Contains(sub, s) ==
    \E k \in 0..(Len(s) - Len(sub)) :
        \A i \in 1..Len(sub) : s[k + i] = sub[i]

Unknown == <<"U", "n", "k", "n", "o", "w", "n">>

(***************************************************************************)
(* analyze_permissions: the permission classifier.                         *)
(***************************************************************************)
\* a classifier that shows the display name before the email
DisplayNameFirst(user) == Get(user, "displayName", Get(user, "email", Unknown))

\* user.get('email', user.get('displayName', 'Unknown'))
UserIdentity(user) == Get(user, "email", Get(user, "displayName", Unknown))

\* a classifier that sets the flag and lists nobody
FlagsUserOnly(acc, user) == [acc EXCEPT !.has_direct_sharing = TRUE]

\* a classifier that lists the grantee and leaves the flag alone
ListsUserOnly(acc, user) ==
    [acc EXCEPT !.shared_users = IF InList(UserIdentity(user), @) THEN @
                                 ELSE Append(@, UserIdentity(user))]

\* has_direct_sharing = True; append the identity unless already listed
AddUser(acc, user) ==
    LET email == UserIdentity(user)
    IN  [acc EXCEPT !.has_direct_sharing = TRUE,
                    !.shared_users = IF InList(email, @) THEN @
                                     ELSE Append(@, email)]

RECURSIVE AnalyzeIdentities(_, _, _)
AnalyzeIdentities(identities, j, acc) ==
    IF j > Len(identities) THEN acc
    ELSE AnalyzeIdentities(identities, j + 1,
            IF TruthyDict(Get(identities[j], "user", NoneDict))
            THEN AddUser(acc, identities[j].user)
            ELSE acc)

\* a classifier that treats owner entries like any other
CountsOwnerEntries(perm) == FALSE

\* 'owner' in perm.get('roles', [])
HasOwnerRole(perm) == InList("owner", Get(perm, "roles", <<>>))

\* one iteration of the loop over permissions
AnalyzeEntry(perm, acc) ==
    IF HasOwnerRole(perm) THEN acc
    ELSE LET link == Get(perm, "link", NoneDict)
             a1 == IF TruthyDict(link) /\ Truthy(Get(link, "type", None))
                   THEN [acc EXCEPT !.has_link_sharing = TRUE]
                   ELSE acc
             granted_to == Get(perm, "grantedTo", NoneDict)
             a2 == IF TruthyDict(granted_to) /\ TruthyDict(Get(granted_to, "user", NoneDict))
                   THEN AddUser(a1, granted_to.user)
                   ELSE a1
         IN  AnalyzeIdentities(Get(perm, "grantedToIdentities", <<>>), 1, a2)

RECURSIVE AnalyzeLoop(_, _, _)
AnalyzeLoop(permissions, i, acc) ==
    IF i > Len(permissions) THEN acc
    ELSE AnalyzeLoop(permissions, i + 1, AnalyzeEntry(permissions[i], acc))

analyze_permissions(permissions) ==
    AnalyzeLoop(permissions, 1,
                [has_link_sharing |-> FALSE,
                 has_direct_sharing |-> FALSE,
                 permission_count |-> Len(permissions),
                 shared_users |-> <<>>])

(***************************************************************************)
(* The explicit-grant test of the scanner (check_folder_recursive).        *)
(***************************************************************************)
\* target_user_lower in user.get('email', '').lower()
UserEmailMatches(user, target_user_lower) ==
    Contains(target_user_lower, Lower(Get(user, "email", EmptyStr)))

EntryMatchesUser(perm, target_user_lower) ==
    LET granted_to == Get(perm, "grantedTo", NoneDict)
        identities == Get(perm, "grantedToIdentities", <<>>)
    IN  \/ /\ TruthyDict(granted_to)
           /\ TruthyDict(Get(granted_to, "user", NoneDict))
           /\ UserEmailMatches(granted_to.user, target_user_lower)
        \/ \E j \in 1..Len(identities) :
              /\ TruthyDict(Get(identities[j], "user", NoneDict))
              /\ UserEmailMatches(identities[j].user, target_user_lower)

\* the test without the inheritedFrom check
has_user_permission_any_origin(permissions, target_user_lower) ==
    \E i \in 1..Len(permissions) :
        /\ ~InList("owner", Get(permissions[i], "roles", <<>>))
        /\ EntryMatchesUser(permissions[i], target_user_lower)

has_explicit_user_permission(permissions, target_user_lower) ==
    \E i \in 1..Len(permissions) :
        /\ ~InList("owner", Get(permissions[i], "roles", <<>>))
        /\ ~TruthyDict(Get(permissions[i], "inheritedFrom", NoneDict))
        /\ EntryMatchesUser(permissions[i], target_user_lower)

(***************************************************************************)
(* The remote drive: a snapshot of items, their children listings and      *)
(* their permission lists, as served by the Graph API.                     *)
(***************************************************************************)
FolderIds == {"r", "a", "b", "c"}
ItemIds == FolderIds \cup {"f"}
RootId == "r"
NotFound == "404"

ItemName(id) ==
    CASE id = "r" -> <<"r", "o", "o", "t">>
      [] id = "a" -> <<"A">>
      [] id = "b" -> <<"B">>
      [] id = "c" -> <<"C">>
      [] OTHER -> <<"F">>

\* users appearing as grantees
UserAl == [email |-> <<"A", "l">>]
UserBo == [email |-> <<"b", "o">>]
UserSal == [email |-> <<"S", "a", "l">>, displayName |-> <<"S">>]
UserNameOnly == [displayName |-> <<"a", "l">>]

\* permission entries as the API returns them
OwnerEntry == [roles |-> <<"owner">>, grantedTo |-> [user |-> UserAl]]
ExplicitAl == [roles |-> <<"write">>, grantedTo |-> [user |-> UserAl]]
InheritedAl == [roles |-> <<"write">>, grantedTo |-> [user |-> UserAl],
                inheritedFrom |-> [id |-> "a"]]
LinkOnly == [roles |-> <<"read">>,
             link |-> [type |-> <<"v", "i", "e", "w">>, scope |-> <<"a", "n", "y">>]]
ExplicitNameOnly == [roles |-> <<"read">>, grantedTo |-> [user |-> UserNameOnly]]
ExplicitIdentities ==
    [roles |-> <<"write">>,
     grantedToIdentities |-> <<[user |-> UserBo], [user |-> UserSal]>>]

\* permission lists a folder may carry
PermOwnerOnly == <<OwnerEntry>>
PermExplicit == <<OwnerEntry, ExplicitAl>>
PermInherited == <<InheritedAl>>
PermLink == <<LinkOnly>>
PermNameOnly == <<ExplicitNameOnly>>
PermIdentities == <<ExplicitIdentities, InheritedAl>>

PermChoices == {PermOwnerOnly, PermExplicit, PermInherited, PermLink,
                PermNameOnly, PermIdentities}
PermSimple == {PermOwnerOnly, PermExplicit}

\* children listings (ids in listing order); "f" is a file
KidsChain == [r |-> <<"a">>, a |-> <<"b">>, b |-> <<"c">>, c |-> <<>>, f |-> <<>>]
KidsTree == [r |-> <<"f", "a", "b">>, a |-> <<"c">>, b |-> <<>>, c |-> <<>>, f |-> <<>>]
KidsDiamond == [r |-> <<"a", "b">>, a |-> <<"c">>, b |-> <<"c">>, c |-> <<>>, f |-> <<>>]
KidsShortcut == [r |-> <<"a", "b">>, a |-> <<"b">>, b |-> <<"c">>, c |-> <<>>, f |-> <<>>]
KidsCycle == [r |-> <<"a">>, a |-> <<"b">>, b |-> <<"r", "c">>, c |-> <<>>, f |-> <<>>]

MkPerms(pr, pa, pb, pc_) == [r |-> pr, a |-> pa, b |-> pb, c |-> pc_, f |-> <<>>]

\* a tree with every kind of permission list on a folder and on its child
TreeDrives ==
    {[kids |-> KidsTree, perms |-> MkPerms(PermOwnerOnly, pa, PermLink, pc_)] :
        pa \in PermChoices, pc_ \in {PermOwnerOnly, PermExplicit, PermInherited}}

\* chains, shared children and cycles with plain grants
GraphDrives ==
    {[kids |-> k, perms |-> MkPerms(pr, pa, PermOwnerOnly, pc_)] :
        k \in {KidsChain, KidsDiamond, KidsShortcut, KidsCycle},
        pr \in PermSimple, pa \in PermSimple, pc_ \in PermSimple}

Drives == TreeDrives \cup GraphDrives

\* one entry of a children listing
ChildItem(id) ==
    IF id \in FolderIds
    THEN [id |-> id, name |-> ItemName(id), folder |-> [childCount |-> 0]]
    ELSE [id |-> id, name |-> ItemName(id), file |-> [mimeType |-> <<>>]]

\* GET /me/drive/items/{id}/children
ChildrenOf(d, id) == [i \in 1..Len(d.kids[id]) |-> ChildItem(d.kids[id][i])]

\* GET /me/drive/root:/{path}: the id the path resolves to, or NotFound
RECURSIVE SplitPath(_, _, _)
SplitPath(s, i, cur) ==
    IF i > Len(s) THEN <<cur>>
    ELSE IF s[i] = "/" THEN <<cur>> \o SplitPath(s, i + 1, <<>>)
    ELSE SplitPath(s, i + 1, Append(cur, s[i]))

RECURSIVE WalkPath(_, _, _, _)
WalkPath(d, names, i, cur) ==
    IF i > Len(names) THEN cur
    ELSE LET hits == {k \in 1..Len(d.kids[cur]) :
                          ItemName(d.kids[cur][k]) = names[i]}
         IN  IF hits = {} THEN NotFound
             ELSE WalkPath(d, names, i + 1,
                           d.kids[cur][CHOOSE k \in hits : \A h \in hits : k <= h])

\* a remote that answers every path with the drive root
ResolvesToRoot(d, path) == RootId

ResolvePath(d, path) == WalkPath(d, SplitPath(path, 1, <<>>), 1, RootId)

\* GET /me/drive/items/{id}: name and parentReference of an item
DriveRootPath == <<"/", "d", "r", "i", "v", "e", "/", "r", "o", "o", "t", ":">>

ItemMeta(d, id) ==
    LET parents == {p \in FolderIds : InList(id, d.kids[p])}
        parent == IF RootId \in parents THEN RootId ELSE CHOOSE p \in parents : TRUE
    IN  IF id = RootId \/ parents = {}
        THEN [id |-> id, name |-> ItemName(id), parentReference |-> [driveId |-> "d"]]
        ELSE [id |-> id, name |-> ItemName(id),
              parentReference |->
                  [id |-> parent,
                   path |-> IF parent = RootId THEN DriveRootPath
                            ELSE DriveRootPath \o <<"/">> \o ItemName(parent)]]

(***************************************************************************)
(* get_item_path: the path of an item from its parent chain.               *)
(***************************************************************************)
RECURSIVE JoinPath(_, _)
JoinPath(parts, i) ==
    IF i > Len(parts) THEN <<>>
    ELSE IF i = Len(parts) THEN parts[i]
    ELSE parts[i] \o <<"/">> \o JoinPath(parts, i + 1)

RECURSIVE ItemPathLoop(_, _, _, _)
ItemPathLoop(d, current_id, path_parts, fuel) ==
    LET item_data == ItemMeta(d, current_id)
        parts == <<Get(item_data, "name", Unknown)>> \o path_parts
        parent_ref == Get(item_data, "parentReference", NoneDict)
    IN  IF ~TruthyDict(parent_ref) \/ Get(parent_ref, "path", None) = DriveRootPath
        THEN parts
        ELSE IF "id" \notin DOMAIN parent_ref \/ fuel = 0 THEN parts
        ELSE ItemPathLoop(d, parent_ref.id, parts, fuel - 1)

get_item_path(d, item_id) ==
    LET path_parts == ItemPathLoop(d, item_id, <<>>, Cardinality(ItemIds))
        stripped == IF path_parts # <<>> /\ Lower(path_parts[1]) = <<"r", "o", "o", "t">>
                    THEN Tail(path_parts) ELSE path_parts
    IN  IF stripped # <<>> THEN JoinPath(stripped, 1) ELSE Unknown

(***************************************************************************)
(* State of one invocation of scan_shared_folders_recursive.               *)
(***************************************************************************)
VARIABLES
    drive,              \* the remote snapshot
    max_depth,          \* argument
    target_dir,         \* argument; EmptyStr when not given
    only_user,          \* argument; EmptyStr when not given
    pc,                 \* "start", "walk", "done"
    stack,              \* pending calls of check_folder_recursive, next first
    shared_folders,     \* results collected so far
    checked_folders,    \* ids already visited
    folders_per_level,  \* depth -> number of folders visited
    returned,           \* value handed to the caller, None until the scan returns
    raised,             \* an exception left scan_shared_folders_recursive
    faults,             \* remote calls that failed so far
    trace,              \* arrivals and remote calls, in order
    stage,              \* "scan", "filter", or "rescan" for a second scan
    candidates,         \* filter_folders_by_user: the list to filter
    target_user,        \* filter_folders_by_user: the user to keep
    filter_pos,         \* filter_folders_by_user: position of the loop
    filtered_folders,   \* filter_folders_by_user: folders kept so far
    first_run,          \* what an earlier invocation with the same arguments
                        \* returned and was answered, NoneDict when there was none
    given_permissions,  \* analyze_permissions: the list handed in
    analysis,           \* analyze_permissions: the tuple returned, NoneDict before
    config,             \* the rclone configuration file, as found on disk
    rclone_remote,      \* argument of the commands; None when not given
    access_token,       \* what get_access_token returned, None before and on failure
    item_acl,           \* the permission list of the processed item on the remote
    email,              \* argument of remove and bulk-remove; None when not given
    dry_run,            \* argument of bulk-remove
    item_permissions,   \* what get_item_permissions returned; <<>> before the call
    to_remove,          \* strip: ids still to be deleted, next first
    deletes,            \* the DELETE requests issued so far, in order
    success,            \* what the processor returned: "unset", "True", "False"
    prompts             \* calls of input() so far

filter_vars == <<stage, candidates, target_user, filter_pos, filtered_folders>>

\* state of the callers of the scanner and of the other operations
classify_vars == <<given_permissions, analysis>>
token_vars == <<config, rclone_remote, access_token>>
manager_vars == <<item_acl, email, dry_run, item_permissions, to_remove, deletes,
                  success, prompts>>
outer_vars == <<first_run, classify_vars, token_vars, manager_vars>>

vars == <<drive, max_depth, target_dir, only_user, pc, stack, shared_folders,
          checked_folders, folders_per_level, returned, raised, faults, trace,
          filter_vars, outer_vars>>

args == <<drive, max_depth, target_dir>>

\* how a remote call ends: HTTP 200, another status, or an exception
Outcomes == {"ok", "status", "raise"}
Fails(o) == IF o = "ok" THEN 0 ELSE 1

Event(op, id, depth, outcome) ==
    [op |-> op, id |-> id, depth |-> depth, outcome |-> outcome, via |-> "-"]

\* max_depth arguments: the small ones and a large one
DepthArgs == 0..MinDepthArgs \cup {MaxDepthArg}
OnlyUsers == {EmptyStr, <<"a", "L">>}
TargetDirs == {EmptyStr, <<"A">>}

\* the locals of a new invocation
FreshScan ==
    /\ pc = "start"
    /\ stack = <<>>
    /\ shared_folders = <<>>
    /\ checked_folders = {}
    /\ folders_per_level = <<>>
    /\ returned = None
    /\ raised = FALSE
    /\ trace = <<>>

\* nothing outside the scanner and the filter has happened
NoPriorRun == first_run = NoneDict

ClassifyIdle == given_permissions = <<>> /\ analysis = NoneDict

\* the scanner is called with a token in hand
TokenGiven ==
    /\ config = NoneDict
    /\ rclone_remote = None
    /\ access_token = <<"t">>

\* no command of the ACL manager is running
ManagerIdle ==
    /\ item_acl = <<>>
    /\ email = None
    /\ dry_run = FALSE
    /\ item_permissions = <<>>
    /\ to_remove = <<>>
    /\ deletes = <<>>
    /\ success = "unset"
    /\ prompts = 0

OuterIdle ==
    /\ NoPriorRun
    /\ ClassifyIdle
    /\ TokenGiven
    /\ ManagerIdle

\* no filter pass is running
NoFilter ==
    /\ stage = "scan"
    /\ candidates = None
    /\ target_user = None
    /\ filter_pos = 0
    /\ filtered_folders = <<>>

Init ==
    /\ drive \in Drives
    /\ max_depth \in DepthArgs
    /\ target_dir \in TargetDirs
    /\ only_user \in OnlyUsers
    /\ faults = 0
    /\ FreshScan
    /\ NoFilter
    /\ OuterIdle

\* target_user_lower = only_user.lower() if only_user else None
TargetUserLower == IF Truthy(only_user) THEN Lower(only_user) ELSE None

(***************************************************************************)
(* check_folder_recursive: one call of the closure.  The recursive calls   *)
(* it makes for the children are pushed on the stack in listing order, so  *)
(* the stack is served in the order the recursion runs.  `via` records the *)
(* folder whose child listing made the call.                               *)
(***************************************************************************)
Frame(folder_id, folder_path, current_depth, via) ==
    [folder_id |-> folder_id, folder_path |-> folder_path,
     current_depth |-> current_depth, via |-> via]

\* the guard without the visited set
GuardDepthOnly(f) == f.current_depth >= max_depth

\* the guard with > for >=
GuardOffByOne(f) ==
    f.current_depth > max_depth \/ f.folder_id \in checked_folders

\* if current_depth >= max_depth or folder_id in checked_folders: return
GuardReturns(f) ==
    f.current_depth >= max_depth \/ f.folder_id \in checked_folders

\* child_path = f"{folder_path}/{child_name}" if folder_path else child_name
ChildPath(folder_path, child_name) ==
    IF Truthy(folder_path) THEN folder_path \o <<"/">> \o child_name
    ELSE child_name

\* a loop that recurses into every child, folder or not
ChildCallsAllItems(children, folder_id, folder_path, current_depth) ==
    [i \in 1..Len(children) |->
        Frame(Get(children[i], "id", "None"),
              ChildPath(folder_path, Get(children[i], "name", Unknown)),
              current_depth + 1,
              folder_id)]

\* the recursive calls made by the loop over the children
ChildCalls(children, folder_id, folder_path, current_depth) ==
    LET folders == SelectSeq(children, LAMBDA child : "folder" \in DOMAIN child)
    IN  [i \in 1..Len(folders) |->
            Frame(Get(folders[i], "id", "None"),
                  ChildPath(folder_path, Get(folders[i], "name", Unknown)),
                  current_depth + 1,
                  folder_id)]

\* should_include_folder
ShouldInclude(an, has_explicit) ==
    IF Truthy(TargetUserLower) THEN has_explicit
    ELSE an.has_link_sharing \/ an.has_direct_sharing

\* a scanner that never prunes
NoPruning(has_explicit) == FALSE

\* if target_user_lower and has_explicit_user_permission: return
PruneChildren(has_explicit) == Truthy(TargetUserLower) /\ has_explicit

\* an exception that unwinds every pending call
RaiseUnwinds(pending) == <<>>

\* except Exception: pass -- only the call that raised ends, the loops of
\* its callers go on with the pending calls
ExceptPass(pending) == pending

\* The body after the guard.  po, io, xo, co are the outcomes of the
\* permissions, item, path and children requests (when issued).
\* The entry that is built and the calls for the children, once the
\* analysis, the decision to include and the path of the folder are known.
FolderResult(f, po, io, xo, co, an, has_explicit, building, folder_path) ==
    LET folder_id == f.folder_id
        d == f.current_depth
        folder_name == IF io = "ok"
                       THEN Get(ItemMeta(drive, folder_id), "name", Unknown)
                       ELSE Unknown
        path_called == building /\ io # "raise" /\ Truthy(folder_path)
        resolved == ResolvePath(drive, folder_path)
        path_status == IF xo = "ok" /\ resolved = NotFound THEN "status" ELSE xo
        appended == building /\ io # "raise"
        aborted == po = "raise" \/ (building /\ io = "raise")
        children_called == ~aborted /\ ~(po = "ok" /\ PruneChildren(has_explicit))
        entry == [path |-> folder_path,
                  name |-> folder_name,
                  id |-> IF path_called /\ path_status = "ok" THEN resolved
                         ELSE folder_id,
                  symbol |-> IF an.has_link_sharing THEN "link" ELSE "users",
                  share_type |-> IF an.has_link_sharing THEN "Link sharing"
                                 ELSE "Direct permissions",
                  has_link_sharing |-> an.has_link_sharing,
                  has_direct_sharing |-> an.has_direct_sharing,
                  permission_count |-> an.permission_count,
                  shared_users |-> an.shared_users]
    IN  [appended |-> IF appended THEN <<entry>> ELSE <<>>,
         calls |-> IF children_called /\ co = "ok"
                   THEN ChildCalls(ChildrenOf(drive, folder_id), folder_id, folder_path, d)
                   ELSE <<>>,
         raises |-> aborted \/ (children_called /\ co = "raise"),
         events |-> <<Event("permissions", folder_id, d, po)>>
                    \o (IF building THEN <<Event("item", folder_id, d, io)>> ELSE <<>>)
                    \o (IF path_called THEN <<Event("path", folder_id, d, path_status)>>
                        ELSE <<>>)
                    \o (IF appended THEN <<Event("append", folder_id, d, "ok")>> ELSE <<>>)
                    \o (IF children_called THEN <<Event("children", folder_id, d, co)>>
                        ELSE <<>>),
         canonical |-> /\ (~building => io = "ok")
                       /\ (~path_called => xo = "ok")
                       /\ (~children_called => co = "ok")]

\* if not folder_path: folder_path = get_item_path(folder_id, access_token)
\* -- only on the branch that builds an entry
WithFolderPath(f, po, io, xo, co, an, has_explicit, building) ==
    FolderResult(f, po, io, xo, co, an, has_explicit, building,
                 IF building /\ ~Truthy(f.folder_path)
                 THEN get_item_path(drive, f.folder_id)
                 ELSE f.folder_path)

\* a scanner that skips the validation of shared_users
SkipsValidation(an) == TRUE

\* if not shared_users: print the error -- else: build the entry
HasSharedUsers(an) == Truthy(an.shared_users)

\* an entry is built when the fetch answered 200, the folder is to be
\* included and shared_users is not empty
WithAnalysis(f, po, io, xo, co, an, has_explicit) ==
    WithFolderPath(f, po, io, xo, co, an, has_explicit,
                   /\ po = "ok"
                   /\ ShouldInclude(an, has_explicit)
                   /\ HasSharedUsers(an))

CheckFolder(f, po, io, xo, co) ==
    WithAnalysis(f, po, io, xo, co,
                 analyze_permissions(drive.perms[f.folder_id]),
                 /\ Truthy(TargetUserLower)
                 /\ has_explicit_user_permission(drive.perms[f.folder_id],
                                                 TargetUserLower))

\* folders_per_level[current_depth] += 1, created at 0 when missing
CountLevel(levels, d) ==
    IF d \in DOMAIN levels THEN [levels EXCEPT ![d] = @ + 1]
    ELSE (d :> 1) @@ levels

\* An unchanged remote answers a request as it answered it to the earlier
\* invocation; a request the earlier invocation did not make is answered 200.
RecordedOutcome(op, id) ==
    LET hits == {i \in 1..Len(first_run.trace) :
                    first_run.trace[i].op = op /\ first_run.trace[i].id = id}
    IN  IF hits = {} THEN "ok"
        ELSE first_run.trace[CHOOSE i \in hits : \A h \in hits : i <= h].outcome

Replaying == "trace" \in DOMAIN first_run

SameAnswers(events) ==
    Replaying =>
        \A k \in 1..Len(events) :
            events[k].outcome = RecordedOutcome(events[k].op, events[k].id)

\* the effects of a call `f` that passed the guard with the result `r`
\* and `n` failed requests
VisitEffects(f, r, n) ==
    /\ r.canonical
    /\ SameAnswers(r.events)
    /\ faults + n <= MaxFaults
    /\ faults' = faults + n
    /\ checked_folders' = checked_folders \cup {f.folder_id}
    /\ folders_per_level' = CountLevel(folders_per_level, f.current_depth)
    /\ shared_folders' = shared_folders \o r.appended
    /\ stack' = IF r.raises THEN ExceptPass(Tail(stack))
                ELSE r.calls \o Tail(stack)
    /\ trace' = trace
                \o <<[Event("arrive", f.folder_id, f.current_depth, "visit")
                        EXCEPT !.via = f.via]>>
                \o r.events

\* a call that passes the guard
Visit ==
    /\ pc = "walk"
    /\ stack # <<>>
    /\ ~GuardReturns(Head(stack))
    /\ \E po, io, xo, co \in Outcomes :
          VisitEffects(Head(stack), CheckFolder(Head(stack), po, io, xo, co),
                       Fails(po) + Fails(io) + Fails(xo) + Fails(co))
    /\ UNCHANGED <<args, only_user, pc, returned, raised, filter_vars, outer_vars>>

\* a call stopped by the guard
VisitSkip ==
    /\ pc = "walk"
    /\ stack # <<>>
    /\ GuardReturns(Head(stack))
    /\ stack' = Tail(stack)
    /\ trace' = Append(trace, [Event("arrive", Head(stack).folder_id,
                                     Head(stack).current_depth, "skip")
                                  EXCEPT !.via = Head(stack).via])
    /\ UNCHANGED <<args, only_user, pc, shared_folders, checked_folders,
                   folders_per_level, returned, raised, faults, filter_vars, outer_vars>>

(***************************************************************************)
(* scan_shared_folders_recursive: the first request and the return.        *)
(***************************************************************************)
\* except Exception as e: print(...) -- the error of the first request is
\* printed, nothing is raised to the caller
SearchErrorEscapes(o) == FALSE

\* the first request answered with `o`, for a start folder `start_id`
Begin(op, o, start_id, start_path) ==
    /\ SameAnswers(<<Event(op, start_id, 0, o)>>)
    /\ faults + Fails(o) <= MaxFaults
    /\ faults' = faults + Fails(o)
    /\ trace' = Append(trace, Event(op, start_id, 0, o))
    /\ raised' = SearchErrorEscapes(o)
    /\ IF o = "ok"
       THEN /\ stack' = <<Frame(start_id, start_path, 0, "caller")>>
            /\ pc' = "walk"
            /\ returned' = returned
       ELSE \* early `return shared_folders`, or the except clause and the
            \* statistics followed by `return shared_folders`
            /\ stack' = stack
            /\ pc' = "done"
            /\ returned' = shared_folders
    /\ UNCHANGED <<args, only_user, shared_folders, checked_folders,
                   folders_per_level, filter_vars, outer_vars>>

StartRoot ==
    /\ pc = "start"
    /\ ~Truthy(target_dir)
    /\ \E o \in Outcomes : Begin("root", o, RootId, EmptyStr)

StartTarget ==
    /\ pc = "start"
    /\ Truthy(target_dir)
    /\ \E o \in Outcomes :
          LET target_id == ResolvePath(drive, target_dir)
          IN  Begin("target", IF o = "ok" /\ target_id = NotFound THEN "status" ELSE o,
                    target_id, target_dir)

\* the outermost call has returned: statistics, then return shared_folders
Finish ==
    /\ pc = "walk"
    /\ stack = <<>>
    /\ pc' = "done"
    /\ returned' = shared_folders
    /\ UNCHANGED <<args, only_user, stack, shared_folders, checked_folders,
                   folders_per_level, raised, faults, trace, filter_vars, outer_vars>>

Next == StartRoot \/ StartTarget \/ Visit \/ VisitSkip \/ Finish

Spec == Init /\ [][Next]_vars

(***************************************************************************)
(* filter_folders_by_user: the re-check pass over a candidate list.        *)
(***************************************************************************)
has_explicit_permission(permissions, target_user_lower) ==
    \E i \in 1..Len(permissions) :
        LET perm == permissions[i]
            granted_to == Get(perm, "grantedTo", NoneDict)
            identities == Get(perm, "grantedToIdentities", <<>>)
        IN  /\ ~InList("owner", Get(perm, "roles", <<>>))
            /\ ~TruthyDict(Get(perm, "inheritedFrom", NoneDict))
            /\ \/ /\ TruthyDict(granted_to)
                  /\ TruthyDict(Get(granted_to, "user", NoneDict))
                  /\ Contains(target_user_lower,
                              Lower(Get(granted_to.user, "email", EmptyStr)))
               \/ \E j \in 1..Len(identities) :
                     /\ TruthyDict(Get(identities[j], "user", NoneDict))
                     /\ Contains(target_user_lower,
                                 Lower(Get(identities[j].user, "email", EmptyStr)))

\* a pass that keeps every candidate whose permissions could be fetched
KeepsAllFetched(folder, po) == po = "ok"

\* one candidate: is it appended to filtered_folders?
KeepsFolder(folder, po) ==
    /\ po = "ok"
    /\ has_explicit_permission(drive.perms[Get(folder, "id", "None")],
                               Lower(target_user))

\* one iteration of the loop over shared_folders
FilterStep ==
    /\ stage = "filter"
    /\ pc = "filter"
    /\ filter_pos <= Len(candidates)
    /\ \E po \in Outcomes :
          LET folder == candidates[filter_pos]
          IN  /\ faults + Fails(po) <= MaxFaults
              /\ faults' = faults + Fails(po)
              /\ filtered_folders' = IF KeepsFolder(folder, po)
                                     THEN Append(filtered_folders, folder)
                                     ELSE filtered_folders
              /\ trace' = Append(trace, Event("recheck", Get(folder, "id", "None"),
                                              filter_pos, po))
    /\ filter_pos' = filter_pos + 1
    /\ UNCHANGED <<args, only_user, pc, stack, shared_folders, checked_folders,
                   folders_per_level, returned, raised, stage, candidates,
                   target_user, outer_vars>>

\* return filtered_folders
FilterReturn ==
    /\ stage = "filter"
    /\ pc = "filter"
    /\ filter_pos > Len(candidates)
    /\ pc' = "filtered"
    /\ UNCHANGED <<args, only_user, stack, shared_folders, checked_folders,
                   folders_per_level, returned, raised, faults, trace, filter_vars, outer_vars>>

\* the pass on its own, over candidate lists of folders and a file
Candidate(id) == [path |-> ItemName(id), name |-> ItemName(id), id |-> id]

RECURSIVE CandidateLists(_)
CandidateLists(n) ==
    IF n = 0 THEN {<<>>}
    ELSE CandidateLists(n - 1)
         \cup {Append(l, Candidate(id)) :
                  l \in {m \in CandidateLists(n - 1) : Len(m) = n - 1},
                  id \in ItemIds}

FilterTargets == {<<"a", "L">>, <<"b", "O">>}

InitFilter ==
    /\ drive \in TreeDrives
    /\ max_depth = 0
    /\ target_dir = EmptyStr
    /\ only_user = EmptyStr
    /\ pc = "filter"
    /\ stack = <<>>
    /\ shared_folders = <<>>
    /\ checked_folders = {}
    /\ folders_per_level = <<>>
    /\ returned = None
    /\ raised = FALSE
    /\ faults = 0
    /\ trace = <<>>
    /\ OuterIdle
    /\ stage = "filter"
    /\ candidates \in CandidateLists(MaxCandidates)
    /\ target_user \in FilterTargets
    /\ filter_pos = 1
    /\ filtered_folders = <<>>

NextFilter == FilterStep \/ FilterReturn

SpecFilter == InitFilter /\ [][NextFilter]_vars

(***************************************************************************)
(* The two strategies on one snapshot, every remote call succeeding: a     *)
(* scan without only_user followed by filter_folders_by_user on its        *)
(* result, then a scan with only_user set to the same user.                *)
(***************************************************************************)
InitPipeline ==
    /\ drive \in Drives
    /\ max_depth \in DepthArgs
    /\ target_dir \in TargetDirs
    /\ only_user = EmptyStr
    /\ faults = MaxFaults
    /\ FreshScan
    /\ NoFilter
    /\ OuterIdle

FilterBegin ==
    /\ stage = "scan"
    /\ pc = "done"
    /\ stage' = "filter"
    /\ pc' = "filter"
    /\ candidates' = returned
    /\ target_user' \in {<<"a", "L">>}
    /\ filter_pos' = 1
    /\ filtered_folders' = <<>>
    /\ UNCHANGED <<args, only_user, stack, shared_folders, checked_folders,
                   folders_per_level, returned, raised, faults, trace, outer_vars>>

\* a new invocation: its locals are created afresh
Rescan ==
    /\ stage = "filter"
    /\ pc = "filtered"
    /\ stage' = "rescan"
    /\ pc' = "start"
    /\ only_user' = target_user
    /\ stack' = <<>>
    /\ shared_folders' = <<>>
    /\ checked_folders' = {}
    /\ folders_per_level' = <<>>
    /\ returned' = None
    /\ raised' = FALSE
    /\ trace' = <<>>
    /\ UNCHANGED <<args, faults, candidates, target_user, filter_pos,
                   filtered_folders, outer_vars>>

NextPipeline == Next \/ FilterBegin \/ FilterStep \/ FilterReturn \/ Rescan

SpecPipeline == InitPipeline /\ [][NextPipeline]_vars

(***************************************************************************)
(* Reading the trace.                                                      *)
(***************************************************************************)
\* positions of the events `op` about item `id`
Events(op, id) == {i \in 1..Len(trace) : trace[i].op = op /\ trace[i].id = id}
Count(op, id) == Cardinality(Events(op, id))

\* outcome of the request `op` for `id`, "none" when it was not issued
OutcomeOf(op, id) ==
    IF Events(op, id) = {} THEN "none"
    ELSE trace[CHOOSE i \in Events(op, id) : TRUE].outcome

\* arrivals at `id` that found it already visited
Revisits(id) ==
    {i \in Events("arrive", id) :
        trace[i].outcome = "skip" /\ trace[i].depth < max_depth}

ResultIds == {shared_folders[i].id : i \in 1..Len(shared_folders)}

\* the request `op` for `id` was answered with an error status or raised
Failed(op, id) == OutcomeOf(op, id) \in {"status", "raise"}

\* the folder `id` was appended to shared_folders
Appended(id) == Count("append", id) >= 1

\* outcome of the first request of the scan
FirstOutcome == IF trace = <<>> THEN "none" ELSE trace[1].outcome

\* arrivals made through the child listing of `id`, and those that visited
ArrivalsVia(id) == {i \in 1..Len(trace) : trace[i].op = "arrive" /\ trace[i].via = id}
VisitsVia(id) == {i \in ArrivalsVia(id) : trace[i].outcome = "visit"}

(***************************************************************************)
(* Permission entries as the specification describes them.                 *)
(***************************************************************************)
IsOwnerEntry(perm) == \E k \in 1..Len(perm.roles) : perm.roles[k] = "owner"
IsExplicitEntry(perm) == "inheritedFrom" \notin DOMAIN perm

\* the user grantees of an entry: the single grantee and the identity list
EntryGrantees(perm) ==
    (IF "grantedTo" \in DOMAIN perm /\ "user" \in DOMAIN perm.grantedTo
     THEN {perm.grantedTo.user} ELSE {})
    \cup
    (IF "grantedToIdentities" \in DOMAIN perm
     THEN {perm.grantedToIdentities[j].user :
              j \in {k \in 1..Len(perm.grantedToIdentities) :
                        "user" \in DOMAIN perm.grantedToIdentities[k]}}
     ELSE {})

EmailOf(user) == IF "email" \in DOMAIN user THEN user.email ELSE <<>>

\* email if present, else display name, else "Unknown"
IdentityOf(user) ==
    IF "email" \in DOMAIN user THEN user.email
    ELSE IF "displayName" \in DOMAIN user THEN user.displayName
    ELSE Unknown

ContainsIgnoringCase(target, text) == Contains(Lower(target), Lower(text))

\* a non-owner explicit entry grants to a user whose email contains the target
GrantsExplicitlyByEmail(perms, target) ==
    \E i \in 1..Len(perms) :
        /\ ~IsOwnerEntry(perms[i])
        /\ IsExplicitEntry(perms[i])
        /\ \E u \in EntryGrantees(perms[i]) : ContainsIgnoringCase(target, EmailOf(u))

\* the same with the display identity of the grantee
GrantsExplicitlyByIdentity(perms, target) ==
    \E i \in 1..Len(perms) :
        /\ ~IsOwnerEntry(perms[i])
        /\ IsExplicitEntry(perms[i])
        /\ \E u \in EntryGrantees(perms[i]) : ContainsIgnoringCase(target, IdentityOf(u))

(***************************************************************************)
(* C1: in a scan with a target grantee, a visited folder whose fetched     *)
(* permission list carries an explicit non-owner grant matching the target *)
(* has no child listing issued and nothing is reached through it; only     *)
(* visited folders are reported; for root -> A -> B with the grant on A    *)
(* and nothing but inheritance on B the scan returns exactly {A}.          *)
(***************************************************************************)
PruningScenario ==
    /\ Truthy(only_user)
    /\ ~Truthy(target_dir)
    /\ max_depth = MaxDepthArg
    /\ drive.perms["r"] = PermOwnerOnly
    /\ drive.perms["a"] = PermExplicit
    /\ \/ drive.kids = KidsChain /\ drive.perms["b"] = PermOwnerOnly
       \/ drive.kids = KidsTree /\ drive.perms["c"] = PermInherited

C1_Pruning ==
    Truthy(only_user) =>
        /\ \A id \in FolderIds :
              (OutcomeOf("permissions", id) = "ok"
                  /\ GrantsExplicitlyByEmail(drive.perms[id], only_user))
              => (Count("children", id) = 0 /\ ArrivalsVia(id) = {})
        /\ ResultIds \subseteq checked_folders
        /\ (pc = "done" /\ faults = 0 /\ PruningScenario)
              => (ResultIds = {"a"} /\ Len(returned) = 1)

C1_Witness ==
    /\ pc = "done"
    /\ faults = 0
    /\ PruningScenario
    /\ drive.kids = KidsTree
    /\ ResultIds = {"a"}
    /\ Count("children", "a") = 0
    /\ "c" \notin checked_folders
    /\ "b" \in checked_folders

(***************************************************************************)
(* C2: in a scan without a target grantee, a visited folder whose          *)
(* permission fetch succeeds is in the results if and only if the          *)
(* classifier reports link or direct sharing for it; a folder shared only  *)
(* through a link yields a result tagged as link sharing.                  *)
(***************************************************************************)
C2_IncludedIffShared ==
    (~Truthy(only_user) /\ faults = 0) =>
        \A id \in checked_folders :
            LET an == analyze_permissions(drive.perms[id])
            IN  /\ Appended(id) <=> (an.has_link_sharing \/ an.has_direct_sharing)
                /\ drive.perms[id] = PermLink =>
                      \E k \in 1..Len(shared_folders) :
                          /\ shared_folders[k].id = id
                          /\ shared_folders[k].share_type = "Link sharing"

(***************************************************************************)
(* C3 as claimed: a scan with max_depth = 0 visits the start folder (its   *)
(* permissions are fetched), reports it exactly when it qualifies, and     *)
(* lists no children.                                                      *)
(***************************************************************************)
C3_DepthZeroVisitsRoot ==
    (pc = "done" /\ max_depth = 0 /\ FirstOutcome = "ok" /\ faults = 0) =>
        /\ checked_folders = {trace[1].id}
        /\ Count("permissions", trace[1].id) = 1
        /\ \A id \in ItemIds : Count("children", id) = 0

(***************************************************************************)
(* C3 as amended: a scan with max_depth = 0 visits no folder at all: the   *)
(* call for the start folder is stopped by the guard, no permission list   *)
(* is fetched, no children are listed and the result is empty.             *)
(***************************************************************************)
C3_DepthZeroVisitsNothing ==
    max_depth = 0 =>
        /\ checked_folders = {}
        /\ shared_folders = <<>>
        /\ \A i \in 1..Len(trace) :
              /\ trace[i].op \in {"root", "target", "arrive"}
              /\ trace[i].op = "arrive" => trace[i].outcome = "skip"
        /\ pc = "done" => returned = <<>>

\* the start folder is shared, the scan is over and nothing was visited
C3_Witness ==
    /\ pc = "done"
    /\ max_depth = 0
    /\ FirstOutcome = "ok"
    /\ ~Truthy(only_user)
    /\ drive.perms[trace[1].id] = PermExplicit
    /\ Count("arrive", trace[1].id) = 1
    /\ returned = <<>>

(***************************************************************************)
(* C4: within one scan, the permission list of a folder id is fetched at   *)
(* most once and its children are listed at most once, also when the id    *)
(* is presented under several parents or on a cycle; an arrival at an id   *)
(* already visited is followed by no remote call of that arrival.          *)
(***************************************************************************)
C4_OncePerFolder ==
    /\ \A id \in ItemIds :
          /\ Count("permissions", id) <= 1
          /\ Count("children", id) <= 1
          /\ Cardinality({i \in Events("arrive", id) : trace[i].outcome = "visit"}) <= 1
    /\ \A i \in 1..Len(trace) :
          (trace[i].op = "arrive" /\ trace[i].outcome = "skip" /\ i < Len(trace))
              => trace[i + 1].op = "arrive"

\* a folder was reached a second time within the depth bound
C4_Witness ==
    /\ pc = "done"
    /\ \E id \in FolderIds :
          /\ Revisits(id) # {}
          /\ Count("permissions", id) = 1
          /\ Count("children", id) = 1

(***************************************************************************)
(* C6: when the permission fetch or the children fetch of a visited folder *)
(* fails, the folder's subtree is skipped: a folder whose permission fetch *)
(* failed contributes no result, and no folder is reached through a folder *)
(* whose permission fetch or children fetch failed.                        *)
(***************************************************************************)
C6_FailedFetchSkipsSubtree ==
    \A id \in FolderIds :
        /\ Failed("permissions", id) => (~Appended(id) /\ VisitsVia(id) = {})
        /\ Failed("children", id) => VisitsVia(id) = {}

(***************************************************************************)
(* C7: a failing remote call of a folder visit never aborts the scan: no   *)
(* error leaves scan_shared_folders_recursive, every result appended is    *)
(* still in the list that is returned, and every folder child of a listed  *)
(* folder that lies within the depth bound has been visited when the scan  *)
(* returns.                                                                *)
(***************************************************************************)
AppendEvents == SelectSeq(trace, LAMBDA e : e.op = "append")

C7_FailuresNeverAbort ==
    /\ ~raised
    /\ Len(shared_folders) = Len(AppendEvents)
    /\ pc = "done" =>
          /\ returned = shared_folders
          /\ \A i \in 1..Len(trace) :
                (trace[i].op = "children" /\ trace[i].outcome = "ok"
                    /\ trace[i].depth + 1 < max_depth)
                => \A k \in 1..Len(drive.kids[trace[i].id]) :
                      drive.kids[trace[i].id][k] \in FolderIds
                          => drive.kids[trace[i].id][k] \in checked_folders

\* a result, then a failed request of a folder, then the visit of a sibling
C7_Witness ==
    /\ pc = "done"
    /\ Len(returned) >= 1
    /\ \E i, j, k \in 1..Len(trace) :
          /\ i < j /\ j < k
          /\ trace[i].op = "append"
          /\ trace[j].op \in {"permissions", "item", "children"}
          /\ trace[j].outcome \in {"status", "raise"}
          /\ trace[k].op = "arrive" /\ trace[k].outcome = "visit"
          /\ \E m \in Events("arrive", trace[j].id) :
                trace[m].outcome = "visit" /\ trace[m].via = trace[k].via

(***************************************************************************)
(* C8: when the first request of a scan is rejected (Unauthorized), the    *)
(* caller gets an error outcome that differs from the outcome of a         *)
(* successful scan that found nothing (an empty list, nothing raised).     *)
(***************************************************************************)
C8_UnauthorizedIsSurfaced ==
    (pc = "done" /\ FirstOutcome = "status") => (raised \/ returned # <<>>)

(***************************************************************************)
(* C10 as claimed: in a scan with a target grantee a visited folder is in  *)
(* the results if and only if a non-owner explicit entry has a grantee     *)
(* whose identity (email if present, else display name) contains the       *)
(* target, ignoring case.                                                  *)
(***************************************************************************)
C10_IncludedIffIdentityMatch ==
    (Truthy(only_user) /\ faults = 0) =>
        \A id \in checked_folders :
            Appended(id) <=> GrantsExplicitlyByIdentity(drive.perms[id], only_user)

(***************************************************************************)
(* C10 as amended: in a scan with a target grantee a visited folder is in  *)
(* the results if and only if its permission fetch succeeded, a non-owner  *)
(* explicit entry has a user grantee whose email (empty when absent; the   *)
(* display name is not consulted) contains the target, ignoring case, and  *)
(* the item request that follows did not raise.                            *)
(***************************************************************************)
C10_IncludedIffEmailMatch ==
    Truthy(only_user) =>
        \A id \in checked_folders :
            Appended(id) <=>
                /\ OutcomeOf("permissions", id) = "ok"
                /\ GrantsExplicitlyByEmail(drive.perms[id], only_user)
                /\ OutcomeOf("item", id) # "raise"

\* a folder whose grant sits in the identity list of an explicit entry,
\* next to an inherited entry, was visited and is reported
C10_Witness ==
    /\ pc = "done"
    /\ Truthy(only_user)
    /\ faults = 0
    /\ \E id \in checked_folders :
          drive.perms[id] = PermIdentities /\ Appended(id)

(***************************************************************************)
(* The filter pass and the pair of strategies.                             *)
(***************************************************************************)
IdsOf(folders) == {folders[i].id : i \in 1..Len(folders)}

\* the candidates the claim expects back, in their order: those whose
\* fetch succeeded and whose list grants explicitly to the target
RECURSIVE ExpectedFrom(_)
ExpectedFrom(i) ==
    IF i >= filter_pos \/ i > Len(candidates) THEN <<>>
    ELSE (IF /\ trace[i].outcome = "ok"
             /\ GrantsExplicitlyByEmail(drive.perms[candidates[i].id], target_user)
          THEN <<candidates[i]>> ELSE <<>>)
         \o ExpectedFrom(i + 1)

(***************************************************************************)
(* C9: filter_folders_by_user returns exactly the candidates, in their     *)
(* order and unmodified, whose freshly fetched permission list has a       *)
(* non-owner entry without inheritedFrom whose user grantee's email        *)
(* contains the target ignoring case; a candidate that shows the grant     *)
(* only as inherited is left out, and so is one whose fetch fails, after   *)
(* which the pass goes on with the next candidate.                         *)
(***************************************************************************)
C9_FilterExplicit ==
    /\ filtered_folders = ExpectedFrom(1)
    /\ Len(trace) = filter_pos - 1
    /\ \A i \in 1..Len(trace) :
          trace[i].op = "recheck" /\ trace[i].id = candidates[i].id
    /\ pc = "filtered" => filter_pos = Len(candidates) + 1

\* Team with the grant and Team/Reports that inherits it: only Team is kept
C9_Witness ==
    /\ pc = "filtered"
    /\ faults = 0
    /\ candidates = <<Candidate("a"), Candidate("c")>>
    /\ drive.perms["a"] = PermExplicit
    /\ drive.perms["c"] = PermInherited
    /\ filtered_folders = <<Candidate("a")>>

(***************************************************************************)
(* C5 as claimed: on one snapshot the scan with a target grantee returns   *)
(* the same set of folders as the scan without one followed by the filter. *)
(***************************************************************************)
BothStrategiesDone == stage = "rescan" /\ pc = "done"

C5_SameFolders ==
    BothStrategiesDone => IdsOf(returned) = IdsOf(filtered_folders)

\* folders below `id` in the children listings
RECURSIVE Below(_, _)
Below(S, n) ==
    IF n = 0 THEN S
    ELSE Below(S \cup {x \in ItemIds : \E p \in S \cap FolderIds : InList(x, drive.kids[p])},
               n - 1)
ProperDescendants(id) ==
    Below({x \in ItemIds : InList(x, drive.kids[id])}, Cardinality(ItemIds))

\* every folder is listed by at most one folder, the root by none
IsTree ==
    /\ \A x \in ItemIds : Cardinality({p \in FolderIds : InList(x, drive.kids[p])}) <= 1
    /\ \A p \in FolderIds : ~InList(RootId, drive.kids[p])

(***************************************************************************)
(* C5 as amended: on a tree snapshot, all remote calls succeeding, the     *)
(* scan with a target grantee returns the topmost folders of the           *)
(* collect-then-filter result: the folders of that result that do not lie  *)
(* below another folder of it.  The two results are equal only when no     *)
(* folder with an explicit grant to the target lies below another one.     *)
(***************************************************************************)
C5_PrunedIsTopmostOfFiltered ==
    (BothStrategiesDone /\ IsTree) =>
        IdsOf(returned) =
            {x \in IdsOf(filtered_folders) :
                ~\E y \in IdsOf(filtered_folders) : x \in ProperDescendants(y)}

\* a folder and its child both carry an explicit grant to the target
C5_Witness ==
    /\ BothStrategiesDone
    /\ IsTree
    /\ IdsOf(filtered_folders) = {"a", "c"}
    /\ IdsOf(returned) = {"a"}

(***************************************************************************)
(* C11: in a scan without a target grantee, a folder all of whose          *)
(* non-owner permission entries are inherited from an ancestor is not      *)
(* reported; only the folder where the sharing was created is.             *)
(***************************************************************************)
\* the list has non-owner entries and every one carries inheritedFrom
InheritedOnly(perms) ==
    /\ \E i \in 1..Len(perms) : ~IsOwnerEntry(perms[i])
    /\ \A i \in 1..Len(perms) : ~IsOwnerEntry(perms[i]) => ~IsExplicitEntry(perms[i])

C11_InheritedOnlyNotReported ==
    ~Truthy(only_user) =>
        \A id \in checked_folders : InheritedOnly(drive.perms[id]) => ~Appended(id)

(***************************************************************************)
(* C12: at every point of a scan and in the list it returns, every result  *)
(* has a non-empty shared_users list; no result pairs link or direct       *)
(* sharing with an empty list of grantees.                                 *)
(***************************************************************************)
C12_SharedUsersNeverEmpty ==
    /\ \A k \in 1..Len(shared_folders) :
          /\ shared_folders[k].shared_users # <<>>
          /\ shared_folders[k].has_link_sharing \/ shared_folders[k].has_direct_sharing
    /\ pc = "done" =>
          \A k \in 1..Len(returned) : returned[k].shared_users # <<>>

\* a link-only folder was visited and left out, another folder is returned
C12_Witness ==
    /\ pc = "done"
    /\ faults = 0
    /\ ~Truthy(only_user)
    /\ Len(returned) >= 1
    /\ \E id \in checked_folders :
          /\ drive.perms[id] = PermLink
          /\ OutcomeOf("permissions", id) = "ok"
          /\ ~Appended(id)

(***************************************************************************)
(* Two invocations of scan_shared_folders_recursive with the same          *)
(* arguments against an unchanged remote.  At most one request fails, and  *)
(* it fails again in the second invocation.                                *)
(***************************************************************************)
InitTwice ==
    /\ drive \in Drives
    /\ max_depth \in DepthArgs
    /\ target_dir \in TargetDirs
    /\ only_user \in OnlyUsers
    /\ faults = MaxFaults - 1
    /\ FreshScan
    /\ NoFilter
    /\ OuterIdle

\* a visited set carried over from the earlier invocation
KeptCheckedFolders == checked_folders

\* checked_folders = set() -- a local of the invocation
NewCheckedFolders == {}

\* the second invocation: shared_folders, checked_folders and
\* folders_per_level are created anew
ScanAgain ==
    /\ stage = "scan"
    /\ pc = "done"
    /\ first_run' = [returned |-> returned, trace |-> trace]
    /\ stage' = "again"
    /\ pc' = "start"
    /\ stack' = <<>>
    /\ shared_folders' = <<>>
    /\ checked_folders' = NewCheckedFolders
    /\ folders_per_level' = <<>>
    /\ returned' = None
    /\ raised' = FALSE
    /\ trace' = <<>>
    /\ faults' = MaxFaults - 1
    /\ UNCHANGED <<args, only_user, candidates, target_user, filter_pos,
                   filtered_folders, classify_vars, token_vars, manager_vars>>

NextTwice == Next \/ ScanAgain

SpecTwice == InitTwice /\ [][NextTwice]_vars

(***************************************************************************)
(* C13: a second scan with the same arguments against an unchanged remote  *)
(* (every request answered as before) returns the same set of result ids   *)
(* as the first; nothing of the first invocation (visited set, counters,   *)
(* results) reaches the second.                                            *)
(***************************************************************************)
C13_SecondScanSameIds ==
    /\ (stage = "again" /\ pc = "start") =>
          /\ checked_folders = {}
          /\ shared_folders = <<>>
          /\ folders_per_level = <<>>
    /\ (stage = "again" /\ pc = "done") =>
          /\ IdsOf(returned) = IdsOf(first_run.returned)
          /\ trace = first_run.trace

\* both scans are over, a request failed in each, and a result came back
C13_Witness ==
    /\ stage = "again"
    /\ pc = "done"
    /\ Len(returned) >= 1
    /\ Cardinality(checked_folders) >= 2
    /\ \E i \in 1..Len(trace) : trace[i].outcome \in {"status", "raise"}

(***************************************************************************)
(* analyze_permissions on its own, over permission lists that mix owner    *)
(* entries (with grantees and links of their own) with the other kinds.    *)
(***************************************************************************)
MaxPerms == 3

OwnerWithLink ==
    [roles |-> <<"write", "owner">>,
     link |-> [type |-> <<"e", "d", "i", "t">>],
     grantedToIdentities |-> <<[user |-> UserBo]>>]

EntryChoices == {OwnerEntry, OwnerWithLink, ExplicitAl, InheritedAl, LinkOnly,
                 ExplicitNameOnly, ExplicitIdentities}

RECURSIVE PermissionLists(_)
PermissionLists(n) ==
    IF n = 0 THEN {<<>>}
    ELSE PermissionLists(n - 1)
         \cup {Append(l, e) :
                  l \in {m \in PermissionLists(n - 1) : Len(m) = n - 1},
                  e \in EntryChoices}

\* no scan is running: the scanner's state is at rest
ScanParked ==
    /\ drive = [kids |-> KidsTree,
                perms |-> MkPerms(PermOwnerOnly, PermOwnerOnly, PermOwnerOnly,
                                  PermOwnerOnly)]
    /\ max_depth = 0
    /\ target_dir = EmptyStr
    /\ only_user = EmptyStr
    /\ stack = <<>>
    /\ shared_folders = <<>>
    /\ checked_folders = {}
    /\ folders_per_level = <<>>
    /\ returned = None
    /\ raised = FALSE
    /\ faults = 0
    /\ trace = <<>>

InitClassify ==
    /\ ScanParked
    /\ NoFilter
    /\ NoPriorRun
    /\ TokenGiven
    /\ ManagerIdle
    /\ pc = "classify"
    /\ given_permissions \in PermissionLists(MaxPerms)
    /\ analysis = NoneDict

Classify ==
    /\ pc = "classify"
    /\ pc' = "classified"
    /\ analysis' = analyze_permissions(given_permissions)
    /\ UNCHANGED <<args, only_user, stack, shared_folders, checked_folders,
                   folders_per_level, returned, raised, faults, trace,
                   filter_vars, first_run, token_vars, manager_vars,
                   given_permissions>>

NextClassify == Classify

SpecClassify == InitClassify /\ [][NextClassify]_vars

\* the entries of a list that do not carry the owner role
RECURSIVE NonOwnerEntries(_)
NonOwnerEntries(perms) ==
    IF perms = <<>> THEN <<>>
    ELSE (IF IsOwnerEntry(Head(perms)) THEN <<>> ELSE <<Head(perms)>>)
         \o NonOwnerEntries(Tail(perms))

HasLinkType(perm) == "link" \in DOMAIN perm /\ "type" \in DOMAIN perm.link

(***************************************************************************)
(* C14: the classifier ignores every entry whose roles contain "owner":    *)
(* such an entry sets neither flag and contributes no grantee, so a list   *)
(* of owner entries only yields no link, no direct sharing and no          *)
(* grantees; the count returned is the number of entries, owners included. *)
(***************************************************************************)
C14_OwnerEntriesIgnored ==
    pc = "classified" =>
        LET others == NonOwnerEntries(given_permissions)
            grantees == UNION {EntryGrantees(others[i]) : i \in 1..Len(others)}
        IN  /\ analysis.has_link_sharing
                  <=> \E i \in 1..Len(others) : HasLinkType(others[i])
            /\ analysis.has_direct_sharing <=> grantees # {}
            /\ {analysis.shared_users[k] : k \in 1..Len(analysis.shared_users)}
                  = {IdentityOf(u) : u \in grantees}
            /\ others = <<>> =>
                  /\ ~analysis.has_link_sharing
                  /\ ~analysis.has_direct_sharing
                  /\ analysis.shared_users = <<>>
            /\ analysis.permission_count = Len(given_permissions)

\* owner entries with a grantee and a link next to a plain grant
C14_Witness ==
    /\ pc = "classified"
    /\ given_permissions = <<OwnerEntry, OwnerWithLink, ExplicitIdentities>>
    /\ analysis.permission_count = 3
    /\ ~analysis.has_link_sharing
    /\ analysis.shared_users = <<UserBo.email, UserSal.email>>

(***************************************************************************)
(* C15: with a target path the scan first resolves the path and calls      *)
(* check_folder_recursive for the resolved folder at depth 0: that folder  *)
(* is the first one visited, every visited folder is the start folder or   *)
(* lies below it in the child listings, and the drive root is not looked   *)
(* up (nor, on a tree, visited); without a path the scan looks up the      *)
(* drive root and starts there at depth 0.                                 *)
(***************************************************************************)
\* the items directly under the drive root that carry the name
TopLevelItems(name) ==
    {x \in ItemIds : InList(x, drive.kids[RootId]) /\ ItemName(x) = name}

StartsAt(id) ==
    /\ trace[1].id = id
    /\ Len(trace) >= 2 =>
          /\ trace[1].outcome = "ok"
          /\ trace[2].op = "arrive" /\ trace[2].id = id
          /\ trace[2].depth = 0 /\ trace[2].via = "caller"
    /\ checked_folders \subseteq {id} \cup ProperDescendants(id)

C15_StartFolder ==
    trace # <<>> =>
        IF Truthy(target_dir)
        THEN /\ trace[1].op = "target"
             /\ trace[1].id \in TopLevelItems(target_dir)
             /\ StartsAt(trace[1].id)
             /\ \A i \in 1..Len(trace) : trace[i].op # "root"
             /\ IsTree => RootId \notin checked_folders
        ELSE /\ trace[1].op = "root"
             /\ StartsAt(RootId)
             /\ \A i \in 1..Len(trace) : trace[i].op # "target"

\* a scan from the folder A that went on into its children
C15_Witness ==
    /\ pc = "done"
    /\ target_dir = <<"A">>
    /\ trace[1].id = "a"
    /\ Cardinality(checked_folders) >= 2
    /\ IsTree
    /\ RootId \notin checked_folders

(***************************************************************************)
(* config_utils: the rclone configuration and get_access_token.            *)
(***************************************************************************)
NameOd == <<"o", "d">>
NameGd == <<"g", "d">>
NameAbsent == <<"z">>

\* datetime.now(timezone.utc), on the scale of the expiry times below
CurrentTime == 2
MaxExpiry == 3

\* the "expiry" string of a token: empty, an ISO timestamp, or some other
\* text; `at` is the instant it names
Expiries ==
    {[text |-> "empty", at |-> 1]}
    \cup {[text |-> t, at |-> n] : t \in {"iso", "other"}, n \in 1..MaxExpiry}

\* the object a token parses to; a key may be missing
TokenDicts ==
    {[k \in ks |-> IF k = "expiry" THEN e ELSE a] :
        ks \in SUBSET {"expiry", "access_token"},
        e \in Expiries,
        a \in {EmptyStr, <<"t">>}}

\* the "token" value of a section: missing or empty, text that is not JSON,
\* JSON that is not an object, or an object
TokenJsons ==
    {[kind |-> "missing"], [kind |-> "garbage"], [kind |-> "scalar"]}
    \cup {[kind |-> "object", value |-> d] : d \in TokenDicts}

SectionGd == [name |-> NameGd, type |-> "drive", token |-> [kind |-> "missing"]]
SectionOd(token_json) == [name |-> NameOd, type |-> "OneDrive", token |-> token_json]

Configs ==
    {[exists |-> FALSE, sections |-> <<>>],
     [exists |-> TRUE, sections |-> <<>>],
     [exists |-> TRUE, sections |-> <<SectionGd>>]}
    \cup {[exists |-> TRUE, sections |-> <<SectionOd(t)>>] : t \in TokenJsons}
    \cup {[exists |-> TRUE, sections |-> <<SectionGd, SectionOd(t)>>] : t \in TokenJsons}

RemoteArgs == {None, NameOd, NameGd, NameAbsent}

\* section.get('type', '').lower()
LowerWord(w) ==
    CASE w = "OneDrive" -> "onedrive"
      [] OTHER -> w

\* the names of the OneDrive remotes, in the order of the file
find_onedrive_remotes(conf) ==
    IF ~conf.exists THEN <<>>
    ELSE LET found == SelectSeq(conf.sections,
                        LAMBDA sec : LowerWord(sec.type)
                                        \in {"onedrive", "onedrivebusiness", "sharepoint"})
         IN  [i \in 1..Len(found) |-> found[i].name]

\* rclone_remote not in config
NotInConfig(conf, remote) ==
    \A i \in 1..Len(conf.sections) : conf.sections[i].name # remote

SectionOf(conf, remote) ==
    conf.sections[CHOOSE i \in 1..Len(conf.sections) : conf.sections[i].name = remote]

\* a check that lets every token through
NeverExpired(expiry) == FALSE

\* datetime.fromisoformat raises ValueError on text it cannot parse, and
\* the token is then used as it is; otherwise current_time >= expiry_time_utc
ExpiryPassed(expiry) ==
    /\ expiry.text = "iso"
    /\ CurrentTime >= expiry.at

TokenResult(token, crashed) == [token |-> token, raised |-> crashed]

\* from the parsed token on
TokenFromObject(token) ==
    LET expiry == Get(token, "expiry", [text |-> "empty", at |-> 1])
        token_text == Get(token, "access_token", None)
    IN  IF expiry.text # "empty" /\ ExpiryPassed(expiry) THEN TokenResult(None, FALSE)
        ELSE IF ~Truthy(token_text) THEN TokenResult(None, FALSE)
        ELSE TokenResult(token_text, FALSE)

\* from the section on
TokenFromSection(section) ==
    CASE section.token.kind = "missing" -> TokenResult(None, FALSE)
      [] section.token.kind = "garbage" -> TokenResult(None, FALSE)
      [] section.token.kind = "scalar" -> TokenResult(None, TRUE)
      [] OTHER -> TokenFromObject(section.token.value)

TokenFromRemote(conf, remote) ==
    IF NotInConfig(conf, remote) THEN TokenResult(None, FALSE)
    ELSE TokenFromSection(SectionOf(conf, remote))

get_access_token(conf, remote) ==
    IF ~conf.exists THEN TokenResult(None, FALSE)
    ELSE IF remote = None
         THEN IF find_onedrive_remotes(conf) = <<>> THEN TokenResult(None, FALSE)
              ELSE TokenFromRemote(conf, find_onedrive_remotes(conf)[1])
         ELSE TokenFromRemote(conf, remote)

(***************************************************************************)
(* scan_shared_folders: the token is acquired, then the scan runs (text    *)
(* output, json_output = False).                                           *)
(***************************************************************************)
CliDrives ==
    {[kids |-> KidsTree,
      perms |-> MkPerms(PermOwnerOnly, pa, PermLink, PermInherited)] :
        pa \in {PermExplicit, PermOwnerOnly}}

InitCli ==
    /\ drive \in CliDrives
    /\ max_depth \in {1, MinDepthArgs}
    /\ target_dir \in TargetDirs
    /\ only_user = EmptyStr
    /\ pc = "token"
    /\ stack = <<>>
    /\ shared_folders = <<>>
    /\ checked_folders = {}
    /\ folders_per_level = <<>>
    /\ returned = None
    /\ raised = FALSE
    /\ faults = MaxFaults - 1
    /\ trace = <<>>
    /\ NoFilter
    /\ NoPriorRun
    /\ ClassifyIdle
    /\ ManagerIdle
    /\ config \in Configs
    /\ rclone_remote \in RemoteArgs
    /\ access_token = None

\* access_token = get_access_token(rclone_remote); if not access_token: return
GetTokenEffects(r) ==
    /\ access_token' = r.token
    /\ pc' = IF r.raised THEN "crashed"
             ELSE IF ~Truthy(r.token) THEN "returned"
             ELSE "start"

GetToken ==
    /\ pc = "token"
    /\ GetTokenEffects(get_access_token(config, rclone_remote))
    /\ UNCHANGED <<args, only_user, stack, shared_folders, checked_folders,
                   folders_per_level, returned, raised, faults, trace,
                   filter_vars, first_run, classify_vars, manager_vars, config,
                   rclone_remote>>

NextCli == GetToken \/ Next

SpecCli == InitCli /\ [][NextCli]_vars

\* the section get_access_token reads, as a set (empty when there is none)
SectionsRead ==
    IF ~config.exists THEN {}
    ELSE IF rclone_remote = None
         THEN {config.sections[i] :
                  i \in {k \in 1..Len(config.sections) :
                            /\ config.sections[k].type = "OneDrive"
                            /\ \A j \in 1..(k - 1) : config.sections[j].type # "OneDrive"}}
         ELSE {config.sections[i] :
                  i \in {k \in 1..Len(config.sections) :
                            config.sections[k].name = rclone_remote}}

TokenObjects == {sec.token.value : sec \in {x \in SectionsRead : x.token.kind = "object"}}

\* the token names an expiry instant that has passed
TokenExpired ==
    \E t \in TokenObjects :
        /\ "expiry" \in DOMAIN t
        /\ t.expiry.text # "empty"
        /\ t.expiry.at <= CurrentTime

\* no token can be had for another reason: no file, no such remote, no
\* token value, a value that is not a JSON object, no access_token in it
NoTokenToUse ==
    \/ SectionsRead = {}
    \/ TokenObjects = {}
    \/ \E t \in TokenObjects :
          "access_token" \notin DOMAIN t \/ t.access_token = EmptyStr

NothingScanned ==
    /\ pc \in {"token", "returned", "crashed"}
    /\ trace = <<>>
    /\ shared_folders = <<>>
    /\ returned = None

(***************************************************************************)
(* C16 as claimed: when no usable credential can be had (no configuration, *)
(* no such remote, token missing or unparsable, token expired, no          *)
(* access_token), scan_shared_folders stops before any remote request and  *)
(* produces no results.                                                    *)
(***************************************************************************)
C16_NoCredentialNoScan ==
    (NoTokenToUse \/ TokenExpired) => NothingScanned

(***************************************************************************)
(* C16 as amended: the same, with expiry detected only from an expiry      *)
(* string that parses as an ISO timestamp; a token whose expiry string     *)
(* cannot be parsed is used as it is, also when it has expired; and a      *)
(* credential that is handed on is the access_token of the token.          *)
(***************************************************************************)
TokenExpiredAsParsed ==
    \E t \in TokenObjects :
        /\ "expiry" \in DOMAIN t
        /\ t.expiry.text = "iso"
        /\ t.expiry.at <= CurrentTime

C16_NoParsedCredentialNoScan ==
    /\ (NoTokenToUse \/ TokenExpiredAsParsed) => NothingScanned
    /\ (pc # "token" /\ ~(NoTokenToUse \/ TokenExpiredAsParsed)) =>
          /\ pc \notin {"returned", "crashed"}
          /\ \E t \in TokenObjects : access_token = t.access_token

\* an expired token was found and the command returned at once
C16_Witness ==
    /\ pc = "returned"
    /\ TokenExpiredAsParsed
    /\ ~NoTokenToUse
    /\ access_token = None
    /\ trace = <<>>

(***************************************************************************)
(* The ACL manager: one item handed to process_multiple_items, with the    *)
(* processor of the strip command or of the remove command.                *)
(***************************************************************************)
PermIds == <<"p1", "p2", "p3", "p4">>

\* the entry as the API returns it, with its permission id
WithId(perm, id) ==
    [k \in DOMAIN perm \cup {"id"} |-> IF k = "id" THEN id ELSE perm[k]]

Numbered(perms) == [i \in 1..Len(perms) |-> WithId(perms[i], PermIds[i])]

\* the permission lists an item may carry on the remote
ItemAcls == {Numbered(l) : l \in PermissionLists(MaxPerms)}

\* the remote list once the entry with this id is gone
RECURSIVE WithoutId(_, _)
WithoutId(acl, id) ==
    IF acl = <<>> THEN <<>>
    ELSE (IF Head(acl).id = id THEN <<>> ELSE <<Head(acl)>>)
         \o WithoutId(Tail(acl), id)

\* how a DELETE ends: 204, another status, or an exception
DeleteOutcomes == {"204", "status", "raise"}

\* what a DELETE leaves on the remote: a 204 removed the entry, another
\* status left it, and a request that broke may have done either
AfterDelete(acl, id, o) ==
    CASE o = "204" -> {WithoutId(acl, id)}
      [] o = "status" -> {acl}
      [] OTHER -> {acl, WithoutId(acl, id)}

DeleteRequest(id, o) == [id |-> id, outcome |-> o]

\* removed > 0
SomeRemoved(requests) == \E i \in 1..Len(requests) : requests[i].outcome = "204"

\* the manager is at the start of one command on one item
ManagerParked ==
    /\ ScanParked
    /\ candidates = None
    /\ target_user = None
    /\ filter_pos = 0
    /\ filtered_folders = <<>>
    /\ NoPriorRun
    /\ ClassifyIdle
    /\ TokenGiven
    /\ dry_run = FALSE
    /\ item_permissions = <<>>
    /\ to_remove = <<>>
    /\ deletes = <<>>
    /\ success = "unset"
    /\ prompts = 0

\* what a step of the manager leaves alone
manager_frame == <<args, only_user, stack, shared_folders, checked_folders,
                   folders_per_level, returned, raised, faults, trace,
                   filter_vars, first_run, classify_vars, token_vars, email,
                   dry_run, prompts>>

\* item_id = get_item_id(item_path, access_token); a failed lookup skips the item
LookupItem ==
    /\ pc = "item"
    /\ \E o \in Outcomes : pc' = IF o = "ok" THEN stage ELSE "skipped"
    /\ UNCHANGED <<manager_frame, item_acl, item_permissions, to_remove, deletes,
                   success>>

\* an entry that carries the owner role is skipped, whatever else it says
SelectsNonOwner(perm) == ~InList("owner", Get(perm, "roles", <<>>))

\* strip: the entry is neither an owner entry nor an inherited one
SelectsForStrip(perm) ==
    /\ ~InList("owner", Get(perm, "roles", <<>>))
    /\ ~TruthyDict(Get(perm, "inheritedFrom", NoneDict))

RECURSIVE StripList(_)
StripList(perms) ==
    IF perms = <<>> THEN <<>>
    ELSE (IF SelectsForStrip(Head(perms)) THEN <<Get(Head(perms), "id", "None")>>
          ELSE <<>>)
         \o StripList(Tail(perms))

\* the processor of strip up to its first DELETE
StripFetched(o, ids) ==
    /\ item_permissions' = IF o = "ok" THEN item_acl ELSE <<>>
    /\ to_remove' = IF o = "ok" THEN ids ELSE <<>>
    /\ success' = IF o # "ok" THEN "False" ELSE IF ids = <<>> THEN "True" ELSE "unset"
    /\ pc' = IF o = "ok" /\ ids # <<>> THEN "strip_delete" ELSE "processed"

StripFetch ==
    /\ pc = "strip"
    /\ \E o \in Outcomes : StripFetched(o, StripList(item_acl))
    /\ UNCHANGED <<manager_frame, item_acl, deletes>>

\* one round of the loop over to_remove
StripDelete ==
    /\ pc = "strip_delete"
    /\ to_remove # <<>>
    /\ \E o \in DeleteOutcomes :
          /\ deletes' = Append(deletes, DeleteRequest(Head(to_remove), o))
          /\ item_acl' \in AfterDelete(item_acl, Head(to_remove), o)
    /\ to_remove' = Tail(to_remove)
    /\ UNCHANGED <<manager_frame, pc, item_permissions, success>>

\* success = removed > 0, the remaining permissions are listed, return success
StripReturn ==
    /\ pc = "strip_delete"
    /\ to_remove = <<>>
    /\ success' = IF SomeRemoved(deletes) THEN "True" ELSE "False"
    /\ pc' = "processed"
    /\ UNCHANGED <<manager_frame, item_acl, item_permissions, to_remove, deletes>>

InitStrip ==
    /\ ManagerParked
    /\ stage = "strip"
    /\ pc = "item"
    /\ email = None
    /\ item_acl \in ItemAcls

NextStrip == LookupItem \/ StripFetch \/ StripDelete \/ StripReturn

SpecStrip == InitStrip /\ [][NextStrip]_vars

\* the entries of the fetched list that are explicit and carry no owner role
ExplicitNonOwnerIds(perms) ==
    {perms[i].id : i \in {k \in 1..Len(perms) :
                             ~IsOwnerEntry(perms[k]) /\ IsExplicitEntry(perms[k])}}

DeletedIds == {deletes[i].id : i \in 1..Len(deletes)}

(***************************************************************************)
(* C17: strip issues a DELETE only for entries of the fetched list that    *)
(* are explicit and carry no owner role, and once the processor has        *)
(* returned, every such entry of the fetched list has had its DELETE.      *)
(***************************************************************************)
C17_StripDeletesExplicitNonOwner ==
    /\ DeletedIds \subseteq ExplicitNonOwnerIds(item_permissions)
    /\ pc = "processed" => ExplicitNonOwnerIds(item_permissions) \subseteq DeletedIds

C17_Witness ==
    /\ pc = "processed"
    /\ deletes # <<>>
    /\ \E i \in 1..Len(item_permissions) : ~IsExplicitEntry(item_permissions[i])
    /\ \E i \in 1..Len(item_permissions) : IsOwnerEntry(item_permissions[i])

\* remove: the id of the first entry that names the email, "None" when none does
NamesEmail(perm, address) ==
    LET identities == Get(perm, "grantedToIdentities", <<>>)
        granted_to == Get(perm, "grantedTo", NoneDict)
    IN  \/ \E j \in 1..Len(identities) :
              /\ TruthyDict(Get(identities[j], "user", NoneDict))
              /\ Get(identities[j].user, "email", None) = address
        \/ /\ TruthyDict(granted_to)
           /\ TruthyDict(Get(granted_to, "user", NoneDict))
           /\ Get(granted_to.user, "email", None) = address

RECURSIVE find_user_permission_id(_, _)
find_user_permission_id(perms, address) ==
    IF perms = <<>> THEN "None"
    ELSE IF NamesEmail(Head(perms), address) THEN Get(Head(perms), "id", "None")
    ELSE find_user_permission_id(Tail(perms), address)

\* the processor of remove up to its DELETE
RemoveFetched(o, target_permission_id) ==
    /\ item_permissions' = IF o = "ok" THEN item_acl ELSE <<>>
    /\ to_remove' = IF o = "ok" /\ target_permission_id # "None"
                    THEN <<target_permission_id>> ELSE <<>>
    /\ success' = IF o = "ok" /\ target_permission_id # "None" THEN "unset" ELSE "False"
    /\ pc' = IF o = "ok" /\ target_permission_id # "None"
             THEN "remove_delete" ELSE "processed"

RemoveFetch ==
    /\ pc = "remove"
    /\ \E o \in Outcomes : RemoveFetched(o, find_user_permission_id(item_acl, email))
    /\ UNCHANGED <<manager_frame, item_acl, deletes>>

\* the single DELETE of the processor and what it returns
RemoveDelete ==
    /\ pc = "remove_delete"
    /\ \E o \in DeleteOutcomes :
          /\ deletes' = Append(deletes, DeleteRequest(Head(to_remove), o))
          /\ item_acl' \in AfterDelete(item_acl, Head(to_remove), o)
          /\ success' = IF o = "204" THEN "True" ELSE "False"
    /\ to_remove' = <<>>
    /\ pc' = "processed"
    /\ UNCHANGED <<manager_frame, item_permissions>>

Emails == {<<"A", "l">>, <<"b", "o">>}

InitRemove ==
    /\ ManagerParked
    /\ stage = "remove"
    /\ pc = "item"
    /\ email \in Emails
    /\ item_acl \in ItemAcls

NextRemove == LookupItem \/ RemoveFetch \/ RemoveDelete

SpecRemove == InitRemove /\ [][NextRemove]_vars

\* the entry grants to a user with this email, singly or in its identity list
GrantsTo(perm, address) == \E u \in EntryGrantees(perm) : EmailOf(u) = address

RemovedIds == {deletes[i].id : i \in {k \in 1..Len(deletes) : deletes[k].outcome = "204"}}

(***************************************************************************)
(* C18: once remove has reported success for the item, every entry of the  *)
(* item's permission list that grants to the email has been deleted.       *)
(***************************************************************************)
C18_SuccessMeansAllRemoved ==
    (stage = "remove" /\ success = "True") =>
        \A i \in 1..Len(item_permissions) :
            GrantsTo(item_permissions[i], email) => item_permissions[i].id \in RemovedIds

(***************************************************************************)
(* bulk_remove_user_access: token, scan, filter, listing, confirmation and *)
(* the removal loop.                                                       *)
(***************************************************************************)
\* the parameters of scan_shared_folders_recursive and the keywords of the call
ScanParameters == {"access_token", "max_depth", "target_dir", "only_user"}
BulkScanKeywords == {"max_results", "target_dir"}

\* a call with a keyword the function does not have raises TypeError
AcceptsKeywords(keywords) == keywords \subseteq ScanParameters

\* the removal loop: the id of the entry to delete, "None" when there is none;
\* a match in an identity list leaves only the inner loop, so a later
\* identity match replaces it, and a single-grantee match ends the search
BulkIdentityNames(perm, address) ==
    LET identities == Get(perm, "grantedToIdentities", <<>>)
    IN  \E j \in 1..Len(identities) :
            /\ TruthyDict(Get(identities[j], "user", NoneDict))
            /\ Lower(Get(identities[j].user, "email", EmptyStr)) = Lower(address)

BulkGrantedToNames(perm, address) ==
    LET granted_to == Get(perm, "grantedTo", NoneDict)
    IN  /\ TruthyDict(granted_to)
        /\ TruthyDict(Get(granted_to, "user", NoneDict))
        /\ Lower(Get(granted_to.user, "email", EmptyStr)) = Lower(address)

RECURSIVE BulkFindLoop(_, _, _)
BulkFindLoop(perms, address, target_permission_id) ==
    IF perms = <<>> THEN target_permission_id
    ELSE LET found == IF BulkIdentityNames(Head(perms), address)
                      THEN Get(Head(perms), "id", "None")
                      ELSE target_permission_id
         IN  IF found = "None" /\ BulkGrantedToNames(Head(perms), address)
             THEN Get(Head(perms), "id", "None")
             ELSE BulkFindLoop(Tail(perms), address, found)

BulkFind(perms, address) == BulkFindLoop(perms, address, "None")

\* how the two requests of one round of the loop end
RoundOutcomes == [get : Outcomes, delete : DeleteOutcomes]

FolderDeleteRequest(f, id, o) == [item |-> f, id |-> id, outcome |-> o]

\* the DELETE requests of the loop over user_folders, in order
RECURSIVE RemovalRequests(_, _, _, _)
RemovalRequests(d, folders, address, outs) ==
    IF folders = <<>> THEN <<>>
    ELSE LET id == BulkFind(Numbered(d.perms[Head(folders)]), address)
         IN  (IF Head(outs).get = "ok" /\ id # "None"
              THEN <<FolderDeleteRequest(Head(folders), id, Head(outs).delete)>>
              ELSE <<>>)
             \o RemovalRequests(d, Tail(folders), address, Tail(outs))

\* what the command has done when it ends
BulkOutcome(requests, asked, crashed) ==
    [deletes |-> requests, prompts |-> asked, raised |-> crashed]

\* lines 646-723: the loop and the summary
RemoveFromFolders(d, folders, address, dry, answer, outs) ==
    BulkOutcome(RemovalRequests(d, folders, address, outs), 0, FALSE)

\* lines 635-644: input(), and the loop on "y" or "yes"
BulkConfirm(d, folders, address, dry, answer, outs) ==
    IF answer \in {"y", "yes"}
    THEN BulkOutcome(RemovalRequests(d, folders, address, outs), 1, FALSE)
    ELSE BulkOutcome(<<>>, 1, FALSE)

\* lines 607-633: nothing found, or a dry run, ends the command
BulkListed(d, folders, address, dry, answer, outs) ==
    IF folders = <<>> \/ dry THEN BulkOutcome(<<>>, 0, FALSE)
    ELSE BulkConfirm(d, folders, address, dry, answer, outs)

\* a command that asks and removes whatever the flag says
BulkIgnoresDryRun(d, folders, address, dry, answer, outs) ==
    BulkConfirm(d, folders, address, FALSE, answer, outs)

\* line 605: the call of the scanner
BulkScanned(d, folders, address, dry, answer, outs) ==
    IF AcceptsKeywords(BulkScanKeywords)
    THEN BulkListed(d, folders, address, dry, answer, outs)
    ELSE BulkOutcome(<<>>, 0, TRUE)

\* the remote once the requests that ended in 204 are applied
PositionOf(id) == CHOOSE k \in 1..Len(PermIds) : PermIds[k] = id

WithoutPosition(list, k) == SubSeq(list, 1, k - 1) \o SubSeq(list, k + 1, Len(list))

RECURSIVE DriveAfter(_, _)
DriveAfter(d, requests) ==
    IF requests = <<>> THEN d
    ELSE LET q == Head(requests)
         IN  DriveAfter(IF q.outcome = "204"
                        THEN [d EXCEPT !.perms[q.item] =
                                 WithoutPosition(d.perms[q.item], PositionOf(q.id))]
                        ELSE d,
                        Tail(requests))

\* the folders filter_folders_by_user may hand back: distinct folders
RECURSIVE FolderLists(_)
FolderLists(n) ==
    IF n = 0 THEN {<<>>}
    ELSE FolderLists(n - 1)
         \cup {Append(l, f) :
                  l \in {m \in FolderLists(n - 1) : Len(m) = n - 1},
                  f \in FolderIds \ {RootId}}

UserFolderLists == {l \in FolderLists(MaxCandidates) :
                       \A i, j \in 1..Len(l) : i # j => l[i] # l[j]}

\* what the user types at "Continue? (y/N): ", after strip().lower()
Answers == {"y", "yes", "n", ""}

BulkDrives ==
    {[kids |-> KidsTree,
      perms |-> MkPerms(PermOwnerOnly, pa, PermIdentities, PermInherited)] :
        pa \in {PermExplicit, PermOwnerOnly}}

InitBulk ==
    /\ drive \in BulkDrives
    /\ max_depth = MinDepthArgs
    /\ target_dir \in TargetDirs
    /\ only_user = EmptyStr
    /\ stack = <<>>
    /\ shared_folders = <<>>
    /\ checked_folders = {}
    /\ folders_per_level = <<>>
    /\ returned = None
    /\ raised = FALSE
    /\ faults = 0
    /\ trace = <<>>
    /\ stage = "bulk"
    /\ candidates = None
    /\ target_user = None
    /\ filter_pos = 0
    /\ filtered_folders = <<>>
    /\ NoPriorRun
    /\ ClassifyIdle
    /\ config \in Configs
    /\ rclone_remote \in RemoteArgs \ {None}
    /\ access_token = None
    /\ pc = "bulk_token"
    /\ email \in Emails
    /\ dry_run \in BOOLEAN
    /\ item_acl = <<>>
    /\ item_permissions = <<>>
    /\ to_remove = <<>>
    /\ deletes = <<>>
    /\ success = "unset"
    /\ prompts = 0

\* lines 597-599: access_token = get_access_token(rclone_remote)
BulkTokenEffects(r) ==
    /\ access_token' = r.token
    /\ pc' = IF r.raised THEN "crashed"
             ELSE IF ~Truthy(r.token) THEN "returned"
             ELSE "bulk_scan"

BulkGetToken ==
    /\ pc = "bulk_token"
    /\ BulkTokenEffects(get_access_token(config, rclone_remote))
    /\ UNCHANGED <<args, only_user, stack, shared_folders, checked_folders,
                   folders_per_level, returned, raised, faults, trace,
                   filter_vars, first_run, classify_vars, manager_vars, config,
                   rclone_remote>>

\* lines 603-723: everything after the token
BulkEffects(r) ==
    /\ deletes' = r.deletes
    /\ prompts' = r.prompts
    /\ raised' = r.raised
    /\ drive' = DriveAfter(drive, r.deletes)
    /\ pc' = IF r.raised THEN "crashed" ELSE "returned"

BulkRemove ==
    /\ pc = "bulk_scan"
    /\ \E folders \in UserFolderLists, answer \in Answers :
          \E outs \in [1..Len(folders) -> RoundOutcomes] :
              BulkEffects(BulkScanned(drive, folders, email, dry_run, answer, outs))
    /\ UNCHANGED <<max_depth, target_dir, only_user, stack, shared_folders,
                   checked_folders, folders_per_level, returned, faults, trace,
                   filter_vars, first_run, classify_vars, token_vars, item_acl,
                   email, dry_run, item_permissions, to_remove, success>>

NextBulk == BulkGetToken \/ BulkRemove

SpecBulk == InitBulk /\ [][NextBulk]_vars

(***************************************************************************)
(* C19: given a usable credential, bulk_remove_user_access does not fail   *)
(* before the filter stage: the scan is completed and its result handed    *)
(* to filter_folders_by_user, so no exception ends the command once the    *)
(* token is in hand.                                                       *)
(***************************************************************************)
C19_BulkReachesFilter ==
    (stage = "bulk" /\ Truthy(access_token)) => ~raised

VisitArrivals == {i \in 1..Len(trace) : trace[i].op = "arrive" /\ trace[i].outcome = "visit"}
VisitedIds == {trace[i].id : i \in VisitArrivals}

\* the requests and the append made for a folder inside a call
IsFolderWork(e) == e.op \in {"permissions", "item", "path", "children", "append"}

(***************************************************************************)
(* C21: a call that reaches a folder at a depth d >= max_depth does not    *)
(* visit it: every arrival that passed the guard, every permission, item,  *)
(* path and children request and every append happened at a depth below    *)
(* max_depth, and the visited set and the results hold only folders        *)
(* visited by such an arrival.                                             *)
(***************************************************************************)
C21_NothingAtOrBeyondMaxDepth ==
    /\ \A i \in 1..Len(trace) :
          (i \in VisitArrivals \/ IsFolderWork(trace[i])) => trace[i].depth < max_depth
    /\ checked_folders = VisitedIds
    /\ ResultIds \subseteq VisitedIds

\* a folder was reached at depth max_depth only, and the scan ended without it
C21_Witness ==
    /\ pc = "done"
    /\ max_depth >= 1
    /\ \E i \in 1..Len(trace) :
          /\ trace[i].op = "arrive"
          /\ trace[i].outcome = "skip"
          /\ trace[i].depth = max_depth
          /\ trace[i].id \notin checked_folders
          /\ drive.perms[trace[i].id] = PermExplicit

\* the calls of check_folder_recursive made so far, and those still pending
Arrivals == {i \in 1..Len(trace) : trace[i].op = "arrive"}

\* the child listings of the folders visited so far, counted entry by entry
RECURSIVE ListedChildren(_)
ListedChildren(ids) ==
    IF ids = {} THEN 0
    ELSE LET id == CHOOSE x \in ids : TRUE
         IN  Len(drive.kids[id]) + ListedChildren(ids \ {id})

\* the scan has a next step: the first request, a call stopped by the
\* guard, a call whose requests are all answered, or the return
ScanCanStep ==
    \/ pc = "start"
    \/ pc = "walk" /\ stack = <<>>
    \/ pc = "walk" /\ stack # <<>> /\ GuardReturns(Head(stack))
    \/ /\ pc = "walk" /\ stack # <<>> /\ ~GuardReturns(Head(stack))
       /\ faults <= MaxFaults
       /\ CheckFolder(Head(stack), "ok", "ok", "ok", "ok").canonical

(***************************************************************************)
(* C22: on every drive, cyclic or with folders listed under several        *)
(* parents, for every max_depth and every pattern of failed requests, the  *)
(* scan returns: until it has returned it can always take its next step,   *)
(* no folder is visited twice, and the calls made and pending never exceed *)
(* the one for the start folder plus one per entry of the child listings   *)
(* of the folders visited, so that no run goes on for ever.                *)
(***************************************************************************)
C22_ScanReturns ==
    /\ pc # "done" => ScanCanStep
    /\ \A id \in ItemIds : Cardinality({i \in VisitArrivals : trace[i].id = id}) <= 1
    /\ Cardinality(Arrivals) + Len(stack) <= 1 + ListedChildren(VisitedIds)

\* a scan over a cycle, with a failed request, that came back to a visited
\* folder and returned
C22_Witness ==
    /\ pc = "done"
    /\ drive.kids = KidsCycle
    /\ faults >= 1
    /\ \E id \in FolderIds : Revisits(id) # {}

(***************************************************************************)
(* The places that tell an explicit entry from an inherited one, applied   *)
(* to the entries of one permission list.                                  *)
(***************************************************************************)
\* {} as the API may send it for a field that holds an object
EmptyDict == [k \in {} |-> TRUE]

\* entries whose inheritedFrom is an empty object, or null
GrantEmptyRef == [roles |-> <<"write">>, grantedTo |-> [user |-> UserAl],
                  inheritedFrom |-> EmptyDict]
GrantNullRef == [roles |-> <<"read">>, grantedTo |-> [user |-> UserBo],
                 inheritedFrom |-> NoneDict]

OriginEntries == {OwnerEntry, ExplicitAl, InheritedAl, LinkOnly, ExplicitIdentities,
                  GrantEmptyRef, GrantNullRef}

RECURSIVE ListsOver(_, _)
ListsOver(entries, n) ==
    IF n = 0 THEN {<<>>}
    ELSE ListsOver(entries, n - 1)
         \cup {Append(l, e) :
                  l \in {m \in ListsOver(entries, n - 1) : Len(m) = n - 1},
                  e \in entries}

\* scanner: inherited_from = perm.get('inheritedFrom'); if inherited_from: continue
ScannerTakesAsExplicit(perm) == ~TruthyDict(Get(perm, "inheritedFrom", NoneDict))

\* filter_folders_by_user: the same two lines
FilterTakesAsExplicit(perm) == ~TruthyDict(Get(perm, "inheritedFrom", NoneDict))

\* strip: if perm.get('inheritedFrom'): continue
StripTakesAsExplicit(perm) == ~TruthyDict(Get(perm, "inheritedFrom", NoneDict))

\* get_detailed_permissions: "is_explicit": perm.get('inheritedFrom') is None
IsNone(v) == "py_none" \in DOMAIN v
DetailIsExplicit(perm) == IsNone(Get(perm, "inheritedFrom", NoneDict))

\* the answers of the four places for every entry of the list
Origins(perms) ==
    [scanner |-> [i \in 1..Len(perms) |-> ScannerTakesAsExplicit(perms[i])],
     filter |-> [i \in 1..Len(perms) |-> FilterTakesAsExplicit(perms[i])],
     strip |-> [i \in 1..Len(perms) |-> StripTakesAsExplicit(perms[i])],
     is_explicit |-> [i \in 1..Len(perms) |-> DetailIsExplicit(perms[i])]]

InitOrigin ==
    /\ ScanParked
    /\ NoFilter
    /\ NoPriorRun
    /\ TokenGiven
    /\ ManagerIdle
    /\ pc = "origin"
    /\ given_permissions \in ListsOver(OriginEntries, MaxPerms)
    /\ analysis = NoneDict

TellOrigins ==
    /\ pc = "origin"
    /\ pc' = "origins"
    /\ analysis' = Origins(given_permissions)
    /\ UNCHANGED <<args, only_user, stack, shared_folders, checked_folders,
                   folders_per_level, returned, raised, faults, trace,
                   filter_vars, first_run, token_vars, manager_vars,
                   given_permissions>>

NextOrigin == TellOrigins

SpecOrigin == InitOrigin /\ [][NextOrigin]_vars

\* an ancestor reference is attached: inheritedFrom names an item
HasAncestorReference(perm) ==
    /\ "inheritedFrom" \in DOMAIN perm
    /\ "id" \in DOMAIN perm.inheritedFrom

(***************************************************************************)
(* C23: the scanner's test, the filter's test, the strip selection and the *)
(* is_explicit flag of get_detailed_permissions give the same answer for   *)
(* the same entry: explicit exactly when no ancestor reference is attached.*)
(***************************************************************************)
C23_OneOriginForAll ==
    pc = "origins" =>
        \A i \in 1..Len(given_permissions) :
            /\ analysis.scanner[i] = ~HasAncestorReference(given_permissions[i])
            /\ analysis.filter[i] = analysis.scanner[i]
            /\ analysis.strip[i] = analysis.scanner[i]
            /\ analysis.is_explicit[i] = analysis.scanner[i]

(***************************************************************************)
(* The explicit-match decision of the scanner and that of the filter, for  *)
(* one permission list and one target.                                     *)
(***************************************************************************)
MatchEntries == OriginEntries \cup {ExplicitNameOnly, OwnerWithLink}
MatchTargets == {<<"a", "L">>, <<"b", "O">>, <<"l">>, <<"C">>}

InitMatch ==
    /\ drive = [kids |-> KidsTree,
                perms |-> MkPerms(PermOwnerOnly, PermOwnerOnly, PermOwnerOnly,
                                  PermOwnerOnly)]
    /\ max_depth = 0
    /\ target_dir = EmptyStr
    /\ only_user \in MatchTargets
    /\ stack = <<>>
    /\ shared_folders = <<>>
    /\ checked_folders = {}
    /\ folders_per_level = <<>>
    /\ returned = None
    /\ raised = FALSE
    /\ faults = 0
    /\ trace = <<>>
    /\ stage = "scan"
    /\ candidates = None
    /\ target_user = only_user
    /\ filter_pos = 0
    /\ filtered_folders = <<>>
    /\ NoPriorRun
    /\ TokenGiven
    /\ ManagerIdle
    /\ pc = "match"
    /\ given_permissions \in ListsOver(MatchEntries, MaxPerms)
    /\ analysis = NoneDict

\* the loop of the scanner with target_user_lower of the scanner, and the
\* loop of the filter with target_user_lower of the filter
DecideBoth ==
    /\ pc = "match"
    /\ pc' = "matched"
    /\ analysis' =
          [scanner |-> /\ Truthy(TargetUserLower)
                       /\ has_explicit_user_permission(given_permissions, TargetUserLower),
           filter |-> has_explicit_permission(given_permissions, Lower(target_user))]
    /\ UNCHANGED <<args, only_user, stack, shared_folders, checked_folders,
                   folders_per_level, returned, raised, faults, trace,
                   filter_vars, first_run, token_vars, manager_vars,
                   given_permissions>>

NextMatch == DecideBoth

SpecMatch == InitMatch /\ [][NextMatch]_vars

(***************************************************************************)
(* C24: for every permission list and every target grantee, the explicit   *)
(* match decided by the scanner equals the one decided by the filter for   *)
(* the same list.                                                          *)
(***************************************************************************)
C24_SameDecision ==
    pc = "matched" => (analysis.scanner <=> analysis.filter)

\* a list with an inherited grant to the target that both take as no match,
\* and one with an explicit grant behind an inherited one that both take
C24_Witness ==
    /\ pc = "matched"
    /\ only_user = <<"a", "L">>
    /\ Len(given_permissions) >= 2
    /\ given_permissions[1] = InheritedAl
    /\ analysis.scanner = (given_permissions[2] = ExplicitAl)
    /\ given_permissions[2] \in {ExplicitAl, LinkOnly}

(***************************************************************************)
(* The classifier over entries of every kind: links with and without a     *)
(* type, user grantees with an email, a display name or neither, grantees  *)
(* that are not users, and the same user in several entries.               *)
(***************************************************************************)
UserAnon == [id |-> <<"9">>]
AppGrantee == [application |-> [displayName |-> <<"a", "p", "p">>]]

LinkEmptyType == [roles |-> <<"read">>, link |-> [type |-> EmptyStr]]
LinkWithUser == [roles |-> <<"read">>, link |-> [type |-> <<"v", "i", "e", "w">>],
                 grantedToIdentities |-> <<[user |-> UserSal]>>]
AppGrant == [roles |-> <<"write">>, grantedTo |-> AppGrantee]
IdentitiesNoUser == [roles |-> <<"read">>, grantedToIdentities |-> <<AppGrantee>>]
ExplicitAnon == [roles |-> <<"read">>, grantedTo |-> [user |-> UserAnon]]

KindEntries == {OwnerWithLink, LinkOnly, LinkEmptyType, LinkWithUser, ExplicitAl,
                InheritedAl, AppGrant, IdentitiesNoUser, ExplicitIdentities,
                ExplicitNameOnly, ExplicitAnon}

InitKinds ==
    /\ ScanParked
    /\ NoFilter
    /\ NoPriorRun
    /\ TokenGiven
    /\ ManagerIdle
    /\ pc = "classify"
    /\ given_permissions \in ListsOver(KindEntries, MaxPerms)
    /\ analysis = NoneDict

SpecKinds == InitKinds /\ [][NextClassify]_vars

\* the entry carries a link descriptor with a non-empty link type
HasNonEmptyLinkType(perm) ==
    /\ "link" \in DOMAIN perm
    /\ "type" \in DOMAIN perm.link
    /\ perm.link.type # <<>>

\* the entry carries a user grantee, singly or in its identity list
HasUserGrantee(perm) == EntryGrantees(perm) # {}

(***************************************************************************)
(* C25: the classifier sets has_link_sharing exactly when some non-owner   *)
(* entry carries a link with a non-empty type, and has_direct_sharing      *)
(* exactly when some non-owner entry carries a user grantee in grantedTo   *)
(* or in grantedToIdentities; a list whose non-owner entries carry links   *)
(* only has no direct sharing, one that carries user grantees only has no  *)
(* link sharing.                                                           *)
(***************************************************************************)
C25_FlagsByKind ==
    pc = "classified" =>
        LET others == NonOwnerEntries(given_permissions)
        IN  /\ analysis.has_link_sharing
                  <=> \E i \in 1..Len(others) : HasNonEmptyLinkType(others[i])
            /\ analysis.has_direct_sharing
                  <=> \E i \in 1..Len(others) : HasUserGrantee(others[i])

\* a typed link without a grantee next to a link without a type and a
\* grantee that is not a user: link sharing, no direct sharing
C25_Witness ==
    /\ pc = "classified"
    /\ given_permissions = <<LinkEmptyType, AppGrant, LinkOnly>>
    /\ analysis.has_link_sharing
    /\ ~analysis.has_direct_sharing

\* the user grantees of an entry in the order the entry presents them:
\* the single grantee, then the identity list
UsersInOrder(perm) ==
    (IF "grantedTo" \in DOMAIN perm /\ "user" \in DOMAIN perm.grantedTo
     THEN <<perm.grantedTo.user>> ELSE <<>>)
    \o (IF "grantedToIdentities" \in DOMAIN perm
        THEN [k \in 1..Len(SelectSeq(perm.grantedToIdentities,
                                     LAMBDA g : "user" \in DOMAIN g)) |->
                 SelectSeq(perm.grantedToIdentities,
                           LAMBDA g : "user" \in DOMAIN g)[k].user]
        ELSE <<>>)

RECURSIVE UsersOfList(_)
UsersOfList(perms) ==
    IF perms = <<>> THEN <<>>
    ELSE UsersInOrder(Head(perms)) \o UsersOfList(Tail(perms))

\* the display identities of the users, each kept where it first occurs
RECURSIVE FirstOccurrences(_, _)
FirstOccurrences(users, seen) ==
    IF users = <<>> THEN seen
    ELSE FirstOccurrences(Tail(users),
                          IF \E k \in 1..Len(seen) : seen[k] = IdentityOf(Head(users))
                          THEN seen
                          ELSE Append(seen, IdentityOf(Head(users))))

(***************************************************************************)
(* C26: the grantee list of the classifier holds, for every user grantee   *)
(* of a non-owner entry, the email if there is one, else the display name, *)
(* else "Unknown"; each identity once, in the order of first occurrence    *)
(* across the entries.                                                     *)
(***************************************************************************)
C26_GranteeList ==
    pc = "classified" =>
        analysis.shared_users
            = FirstOccurrences(UsersOfList(NonOwnerEntries(given_permissions)), <<>>)

\* a user with both an email and a display name, a user with neither, and
\* a user granted twice
C26_Witness ==
    /\ pc = "classified"
    /\ given_permissions = <<LinkWithUser, ExplicitAnon, ExplicitIdentities>>
    /\ analysis.shared_users = <<UserSal.email, Unknown, UserBo.email>>

\* the calls a step has put in front of the pending ones
NewCalls == SubSeq(stack', 1, Len(stack') - (Len(stack) - 1))

\* folder_path of the call that made them, as it stands after the body:
\* the path written into the entry when one was appended
PathAfterBody ==
    IF Len(shared_folders') > Len(shared_folders)
    THEN shared_folders'[Len(shared_folders')].path
    ELSE Head(stack).folder_path

\* the calls for the children are for folders of the listing, one level
\* down, with the path given by `path_of`
ChildCallsAre(path_of(_, _)) ==
    (pc = "walk" /\ stack # <<>> /\ stack' # stack) =>
        \A k \in 1..Len(NewCalls) :
            /\ NewCalls[k].folder_id \in FolderIds
            /\ InList(NewCalls[k].folder_id, drive.kids[Head(stack).folder_id])
            /\ NewCalls[k].via = Head(stack).folder_id
            /\ NewCalls[k].current_depth = Head(stack).current_depth + 1
            /\ NewCalls[k].folder_path
                   = path_of(PathAfterBody, ItemName(NewCalls[k].folder_id))

\* nothing is ever done for an item that is not a folder, and a folder
\* reached through a child listing is visited one level below the folder
\* that listed it
OnlyFoldersOneLevelDown ==
    /\ \A i \in 1..Len(trace) : trace[i].id \in FolderIds \cup {NotFound}
    /\ \A i \in VisitArrivals :
          trace[i].via # "caller" =>
              \E j \in VisitArrivals :
                  /\ j < i
                  /\ trace[j].id = trace[i].via
                  /\ trace[i].depth = trace[j].depth + 1

JoinedWithSlash(parent_path, child_name) == parent_path \o <<"/">> \o child_name

NameWhenParentPathEmpty(parent_path, child_name) ==
    IF parent_path = <<>> THEN child_name
    ELSE parent_path \o <<"/">> \o child_name

(***************************************************************************)
(* C27: the scanner recurses only into children that are folders, a        *)
(* non-folder child never has its permissions or children fetched, every   *)
(* visited non-root folder is visited at depth one more than the folder    *)
(* whose child listing led to it, and its path is the parent's path, "/"   *)
(* and the child's name.                                                   *)
(***************************************************************************)
C27_FolderChildrenSlashPath ==
    []OnlyFoldersOneLevelDown /\ [][ChildCallsAre(JoinedWithSlash)]_vars

(***************************************************************************)
(* C27 as amended: the same, with the path of a child being the child's    *)
(* name alone when the parent's path is empty (the children of the drive   *)
(* root in a scan that starts at the root), and the parent's path, "/"     *)
(* and the child's name otherwise.                                         *)
(***************************************************************************)
C27_FolderChildrenPath ==
    []OnlyFoldersOneLevelDown /\ [][ChildCallsAre(NameWhenParentPathEmpty)]_vars

\* a scan from the root of the tree with a file in the root listing: the
\* file was left alone, and a folder two levels down was visited
C27_Witness ==
    /\ pc = "done"
    /\ drive.kids = KidsTree
    /\ ~Truthy(target_dir)
    /\ OutcomeOf("children", RootId) = "ok"
    /\ Events("arrive", "f") = {}
    /\ \E i \in VisitArrivals : trace[i].id = "c" /\ trace[i].depth = 2 /\ trace[i].via = "a"

\* the folder the scan started from: the one check_folder_recursive was
\* called for by scan_shared_folders_recursive itself
StartIds == {trace[i].id : i \in {j \in Arrivals : trace[j].via = "caller"}}

\* the folders that some chain of child listings from the start reaches in
\* fewer than max_depth steps
WithinDepth ==
    IF max_depth = 0 THEN {}
    ELSE Below(StartIds, max_depth - 1) \cap FolderIds

\* a finished scan without a target grantee in which no request failed
PlainScanDone ==
    /\ pc = "done"
    /\ ~Truthy(only_user)
    /\ faults = 0
    /\ StartIds # {}

(***************************************************************************)
(* C28: in a scan without a target grantee and without fetch failures, a   *)
(* folder is visited if and only if some chain of child listings from the  *)
(* scan root reaches it in fewer than max_depth steps, also when the       *)
(* remote presents the same folder under several parents at different      *)
(* depths.                                                                 *)
(***************************************************************************)
C28_VisitedIffWithinDepth == PlainScanDone => VisitedIds = WithinDepth

\* what does hold: nothing beyond the depth is visited, and on a tree the
\* two sets are the same
C28_OnTrees ==
    PlainScanDone =>
        /\ VisitedIds \subseteq WithinDepth
        /\ IsTree => VisitedIds = WithinDepth

\* the folders the entries of shared_folders were appended for, and the ids
\* written into the entries
AppendedIds == {trace[i].id : i \in {j \in 1..Len(trace) : trace[j].op = "append"}}

\* no folder of S lies below another folder of S
Antichain(S) == \A x \in S : \A y \in S : y \notin ProperDescendants(x)

(***************************************************************************)
(* C29: in a scan with a target grantee over a tree, the reported folders  *)
(* form an antichain: no reported folder is a proper descendant of another *)
(* reported folder.                                                        *)
(***************************************************************************)
C29_ResultsAreAntichain ==
    (Truthy(only_user) /\ IsTree) =>
        /\ Antichain(AppendedIds)
        /\ Antichain(ResultIds)

\* a folder was reported for the target grantee, and a folder below it that
\* carries an explicit grant for the same grantee was not
C29_Witness ==
    /\ pc = "done"
    /\ Truthy(only_user)
    /\ IsTree
    /\ "a" \in ResultIds
    /\ "c" \in ProperDescendants("a")
    /\ has_explicit_user_permission(drive.perms["c"], TargetUserLower)
    /\ "c" \notin ResultIds

\* the folder was visited, its permission list was answered 200, none of
\* the requests made for it raised, and its children were not listed
ChildrenSkipped(id) ==
    /\ id \in VisitedIds
    /\ OutcomeOf("permissions", id) = "ok"
    /\ \A i \in 1..Len(trace) : trace[i].id = id => trace[i].outcome # "raise"
    /\ Count("children", id) = 0

(***************************************************************************)
(* C30: in a scan with a target grantee, the children of a folder are      *)
(* skipped by pruning only if the folder itself was appended to the        *)
(* results, the requests made for it having succeeded: wherever the        *)
(* explicit match is found the classified grantee list is not empty, so no *)
(* subtree is pruned without its root being reported.                      *)
(***************************************************************************)
C30_PrunedMeansReported ==
    Truthy(only_user) =>
        /\ \A id \in FolderIds : ChildrenSkipped(id) => Appended(id)
        /\ \A id \in FolderIds :
              has_explicit_user_permission(drive.perms[id], TargetUserLower)
                  => analyze_permissions(drive.perms[id]).shared_users # <<>>

\* a scan with a target grantee has pruned below a folder that it reported,
\* and has listed the children of a folder without a match
C30_Witness ==
    /\ pc = "done"
    /\ Truthy(only_user)
    /\ \E id \in FolderIds \ {RootId} :
          /\ ChildrenSkipped(id)
          /\ drive.kids[id] # <<>>
          /\ Appended(id)
    /\ OutcomeOf("children", RootId) = "ok"

====
